---- MODULE Spec2Model ----
(***************************************************************************)
(* A model of the hsa-rs user-space GPU compute thunk: the VA aperture     *)
(* allocator, the memory manager and the RAII Allocation, the queue        *)
(* builder and HsaQueue, the signal pool and the signal wait engine.       *)
(*                                                                         *)
(* Addresses and sizes (u64/usize) are unsigned words of VaBits bits, kept  *)
(* as a number of 4096-byte pages and a number of bytes below a page: the   *)
(* word [p |-> 65537, o |-> 16] is 65537 * 4096 + 16 = 268439568.  All      *)
(* other u64 values are numbers of WordBits bits.  An arithmetic overflow   *)
(* either panics (a build with overflow checks) or wraps (a build without); *)
(* the variable overflow_checks selects the build.                          *)
(***************************************************************************)
EXTENDS Integers, Sequences, FiniteSets, TLC

VARIABLES
    overflow_checks,   \* TRUE: arithmetic overflow panics; FALSE: it wraps
    apertures,         \* aperture name -> Aperture.allocations (start -> size)
    ap_cur,            \* the aperture driven directly through ApertureAllocator
    ap_live,           \* addresses returned by allocate_va and not yet given to free_va
    ap_last,           \* outcome of the last ApertureAllocator call
    ap_calls,          \* number of allocate_va calls made directly so far
    kfd,               \* the kernel driver: live memory handles and queues
    mgr_allocations,   \* MemoryManager.allocations: handle -> the record kept of it
    owned,             \* Allocation objects the client owns
    queues,            \* HsaQueue objects the client owns
    dropping,          \* threads inside the drop of an Allocation or an HsaQueue
    poisoned,          \* the Mutex<MemoryManager> is poisoned
    stuck,             \* a thread re-locked the manager mutex it already holds
    ghost,             \* history: handles whose owner was dropped, queues dropped
    last,              \* the last operation: its inputs, result and ioctl trace
    calls,             \* number of allocate and create calls made so far
    pool,              \* the SignalPool behind its own mutex
    signals,           \* Signal objects the client owns
    sig_ops,           \* the creation of a signal and the drops of signals under way
    events,            \* the kernel's events, as far as the EventManager shows them
    sig_last,          \* the last signal operation and its result
    sig_calls,         \* number of signal creations attempted so far
    slot_mem,          \* the SharedSignal slots of the pool's blocks, by GPU VA
    topo,              \* topology acquisition: the sysfs tree and the snapshot
    ctx,               \* the process-wide context and the threads using it
    kev,               \* the kernel's event objects and the waits on them
    atomics,           \* the signal's atomics: store histories and thread views
    sig_event,         \* the event backing the signal whose wait is followed
    waiter,            \* the thread in Signal::wait_relaxed
    producer,          \* the thread in Signal::store_release
    group              \* two signals, a thread in wait_any and one in wait_relaxed

ap_vars == <<ap_cur, ap_live, ap_last, ap_calls>>
mem_vars == <<kfd, mgr_allocations, owned, queues, dropping, poisoned, stuck, ghost,
              last, calls>>
sig_vars == <<pool, signals, sig_ops, events, sig_last, sig_calls, slot_mem>>
sys_vars == <<topo, ctx, kev>>
wait_vars == <<atomics, sig_event, waiter, producer, group>>
vars == <<overflow_checks, apertures, ap_vars, mem_vars, sig_vars, sys_vars,
          wait_vars>>

----------------------------------------------------------------------------
(* Machine words *)

WordBits == 29
WordMod == 2^WordBits
PageSize == 4096

\* u64::MAX
U64_MAX == WordMod - 1

Max2(a, b) == IF a >= b THEN a ELSE b

SetMin(S) == CHOOSE x \in S : \A y \in S : x <= y

\* let x = v; F(x): v is computed once and F uses its value
Bind(v, F(_)) == CHOOSE out \in {F(x) : x \in {v}} : TRUE

\* x & !m on unsigned numbers
RECURSIVE AndNot(_, _)
AndNot(x, m) ==
    IF x = 0 THEN 0
    ELSE IF m = 0 THEN x
    ELSE (IF x % 2 = 1 /\ m % 2 = 0 THEN 1 ELSE 0) + 2 * AndNot(x \div 2, m \div 2)

----------------------------------------------------------------------------
(* Addresses and sizes: words of VaBits bits as pages and bytes.  The sum   *)
(* and the difference are those of the numbers, before any wrapping: p      *)
(* >= PageMod after an overflow, p < 0 after an underflow.                   *)

VaBits == 33

\* The number of pages a word can count: PageSize is 2^12
PageMod == 2^(VaBits - 12)

\* The word of the number n
Va(n) == [p |-> n \div PageSize, o |-> n % PageSize]

\* The word of n whole pages
VaPages(n) == [p |-> n, o |-> 0]

\* The number of a word that is small enough to be one
VaInt(x) == x.p * PageSize + x.o

VaAdd(x, y) == [p |-> x.p + y.p + ((x.o + y.o) \div PageSize), o |-> (x.o + y.o) % PageSize]

VaSub(x, y) == [p |-> x.p - y.p + ((x.o - y.o) \div PageSize), o |-> (x.o - y.o) % PageSize]

VaLt(x, y) == x.p < y.p \/ (x.p = y.p /\ x.o < y.o)

VaLe(x, y) == x.p < y.p \/ (x.p = y.p /\ x.o <= y.o)

\* x modulo 2^VaBits
VaWrap(x) == [p |-> x.p % PageMod, o |-> x.o]

\* x does not fit in a word
VaOver(x) == x.p >= PageMod

VaNeg(x) == x.p < 0

\* usize::MAX
VaMax == [p |-> PageMod - 1, o |-> PageSize - 1]

\* x & !m on words
VaAndNot(x, m) == [p |-> AndNot(x.p, m.p), o |-> AndNot(x.o, m.o)]

VaMax2(x, y) == IF VaLe(y, x) THEN x ELSE y

VaSetMin(S) == CHOOSE x \in S : \A y \in S : VaLe(x, y)

----------------------------------------------------------------------------
(* Aperture (thunk/memory/aperture.rs) *)

\* (val + align - 1) & !(align - 1); o reports an overflow of + or -
align_up(val, align) ==
    LET s1 == VaAdd(val, align)
        s2 == VaSub(VaWrap(s1), Va(1))
        m  == VaSub(align, Va(1))
    IN  [v |-> VaAndNot(VaWrap(s2), VaWrap(m)),
         o |-> VaOver(s1) \/ VaNeg(s2) \/ VaNeg(m)]

\* The for loop of allocate_va over the occupied ranges `keys`, ascending.
RECURSIVE ScanHoles(_, _, _, _, _, _)
ScanHoles(allocs, keys, cs, req, al, o) ==
    IF keys = {} THEN [found |-> FALSE, cs |-> cs, o |-> o]
    ELSE LET alloc_start == VaSetMin(keys)
             alloc_size  == allocs[alloc_start]
             end_raw     == VaAdd(alloc_start, alloc_size)
             alloc_end   == VaWrap(end_raw)
             o1          == o \/ VaOver(end_raw)
         IN  IF VaLt(cs, alloc_start) /\ VaLe(req, VaSub(alloc_start, cs))
             THEN [found |-> TRUE, cs |-> cs, o |-> o1]
             ELSE Bind(align_up(alloc_end, al), LAMBDA nxt :
                    ScanHoles(allocs, keys \ {alloc_start}, nxt.v, req, al, o1 \/ nxt.o))

Insert(allocs, k, v) == [x \in DOMAIN allocs \cup {k} |-> IF x = k THEN v ELSE allocs[x]]

Remove(allocs, k) == [x \in DOMAIN allocs \ {k} |-> allocs[x]]

\* Aperture::allocate_va.  kind: "some" | "none" | "panic".
allocate_va(cfg, allocs, size, align, checks) ==
    LET al         == VaMax2(align, cfg.align)
        guard_size == VaPages(cfg.guard_pages)
        req_raw    == VaAdd(size, VaAdd(guard_size, guard_size))
        req        == VaWrap(req_raw)
        Finish(scan) ==
            LET tail_raw == VaAdd(scan.cs, req)
                fits     == scan.found \/ VaLe(VaWrap(tail_raw), cfg.limit)
                o_pre    == scan.o \/ (~scan.found /\ VaOver(tail_raw))
                ret_raw  == VaAdd(scan.cs, guard_size)
            IN  IF checks /\ o_pre
                THEN [kind |-> "panic", addr |-> Va(0), allocs |-> allocs]
                ELSE IF ~fits
                THEN [kind |-> "none", addr |-> Va(0), allocs |-> allocs]
                ELSE IF checks /\ VaOver(ret_raw)
                THEN [kind |-> "panic", addr |-> Va(0),
                      allocs |-> Insert(allocs, scan.cs, req)]
                ELSE [kind |-> "some", addr |-> VaWrap(ret_raw),
                      allocs |-> Insert(allocs, scan.cs, req)]
    IN  Bind(align_up(cfg.base, al), LAMBDA c0 :
          Bind(ScanHoles(allocs, DOMAIN allocs, c0.v, req, al,
                         VaOver(req_raw) \/ c0.o),
               LAMBDA scan : Finish(scan)))

\* Aperture::free_va.  kind: "freed" | "untracked" | "panic".
free_va(cfg, allocs, addr, checks) ==
    LET guard_size    == VaPages(cfg.guard_pages)
        raw           == VaSub(addr, guard_size)
        tracked_start == VaWrap(raw)
    IN  IF checks /\ VaNeg(raw)
        THEN [kind |-> "panic", allocs |-> allocs]
        ELSE IF tracked_start \in DOMAIN allocs
        THEN [kind |-> "freed", allocs |-> Remove(allocs, tracked_start)]
        ELSE [kind |-> "untracked", allocs |-> allocs]

----------------------------------------------------------------------------
(* The apertures MemoryManager::new builds (thunk/memory/manager.rs) *)

SVM_MIN_BASE == 268435456
SVM_GUARD_PAGES == 1
SVM_DEFAULT_ALIGN == 4096

\* alt_size = 4 GiB, in pages
AltSizePages == 1048576

\* The default aperture ends at the GPUVM limit the kernel reports, the LDS
\* and Scratch apertures are the per-GPU ranges the kernel reports: spans in
\* pages.
DefSpanPages == 4
GpuSpanPages == 3

ApertureNames == {"svm", "svm_alt", "lds", "scratch"}

\* alt_base + alt_size - 1
alt_limit == VaSub(VaAdd(Va(SVM_MIN_BASE), VaPages(AltSizePages)), Va(1))

ApCfg(name) ==
    CASE name = "svm_alt" ->
            [base |-> Va(SVM_MIN_BASE), limit |-> alt_limit,
             align |-> Va(SVM_DEFAULT_ALIGN), guard_pages |-> SVM_GUARD_PAGES]
      [] name = "svm" ->
            [base |-> VaAdd(alt_limit, Va(1)),
             limit |-> VaAdd(alt_limit, VaPages(DefSpanPages)),
             align |-> Va(SVM_DEFAULT_ALIGN), guard_pages |-> SVM_GUARD_PAGES]
      [] name = "lds" ->
            [base |-> VaPages(16), limit |-> VaSub(VaPages(16 + GpuSpanPages), Va(1)),
             align |-> Va(4096), guard_pages |-> 0]
      [] name = "scratch" ->
            [base |-> VaPages(32), limit |-> VaSub(VaPages(32 + GpuSpanPages), Va(1)),
             align |-> Va(4096), guard_pages |-> 0]

EmptyMap == [x \in {} |-> 0]

----------------------------------------------------------------------------
(* The state right after MemoryManager::new, before any client call *)

BuildInit ==
    /\ overflow_checks \in BOOLEAN
    /\ apertures = [n \in ApertureNames |-> EmptyMap]

MemStart ==
    /\ kfd = [next |-> 1, live |-> {}, free_calls |-> EmptyMap,
              queues |-> {}, next_q |-> 1]
    /\ mgr_allocations = EmptyMap
    /\ owned = {}
    /\ queues = {}
    /\ dropping = {}
    /\ poisoned = FALSE
    /\ stuck = FALSE
    /\ ghost = [dropped |-> {}, qdropped |-> {}]
    /\ last = [op |-> "new", res |-> "ok", trace |-> <<>>, arg |-> [at |-> "done"],
               pz |-> FALSE]
    /\ calls = 0

\* SignalPool
INITIAL_BLOCK_SIGNALS == 32
MAX_BLOCK_SIGNALS == 1024
\* size_of::<SharedSignal>()
SharedSignalSize == 128

\* SignalPool::new, with no Signal created and no event requested yet
SigStart ==
    /\ pool = [free_list |-> <<>>, block_list |-> <<>>,
               next_block_signals |-> INITIAL_BLOCK_SIGNALS, poisoned |-> FALSE]
    /\ signals = {}
    /\ sig_ops = [create |-> [pc |-> "idle"], drops |-> {}]
    /\ events = [live |-> {}]
    /\ sig_last = [op |-> "new", res |-> "ok", at |-> "done", kind |-> 0,
                   queue_ptr |-> 0, value |-> 0, locks |-> <<>>]
    /\ sig_calls = 0
    /\ slot_mem = EmptyMap

\* No topology acquired, no context acquired, no kernel event created
SysStart ==
    /\ topo = [pc |-> "none"]
    /\ ctx = [pc |-> "none"]
    /\ kev = [pc |-> "none"]

\* The threads that call acquire() and release()
CtxThreads == {"t1", "t2"}

\* GLOBAL_CONTEXT and GLOBAL_TOPOLOGY of a process that has acquired nothing
CtxStart ==
    [context |-> 0, topology |-> 0, num_nodes |-> 0, lock |-> "none", next_id |-> 1,
     opens |-> 0, builds |-> 0, scans |-> 0, generation_reads |-> 0, fd_opens |-> 0,
     returned |-> {}, fails |-> 0,
     th |-> [t \in CtxThreads |->
                [pc |-> "idle", calls |-> 0, got |-> 0, num_nodes |-> 0, node_id |-> 0]]]

\* Topology::new accepts a snapshot whose two reads of generation_id differ
\* once retries > TopologyRetryLimit
TopologyRetryLimit == 5

\* What a run of Topology::new meets: `changes` passes in a row during which
\* the two reads of generation_id differ (from the pass with retries >
\* TopologyRetryLimit on the loop accepts whatever it reads, so that no run
\* has more than TopologyRetryLimit + 2 passes), the pass whose get_snapshot
\* fails (0: none does), and whether /dev/kfd can be opened for the aperture
\* query
TopologyRuns ==
    [changes : 0..(TopologyRetryLimit + 2), snapshot_fails_at : 0..(TopologyRetryLimit + 2),
     open_fails : BOOLEAN]

\* Topology::new as a whole: the loop makes a pass (read generation_id, take
\* the snapshot, read generation_id) until the two reads agree or retries > 5;
\* a get_snapshot that fails ends it with the error; then fetch_apertures
\* opens /dev/kfd, and a failure to open ends it with the error.  scans are
\* the snapshots taken, opens the opens of /dev/kfd that succeeded.
Topology_new(run) ==
    LET passes == IF run.changes > TopologyRetryLimit THEN TopologyRetryLimit + 2
                  ELSE run.changes + 1
    IN  IF run.snapshot_fails_at \in 1..passes
        THEN [ok |-> FALSE, scans |-> run.snapshot_fails_at - 1,
              generation_reads |-> 2 * run.snapshot_fails_at - 1, opens |-> 0]
        ELSE [ok |-> ~run.open_fails, scans |-> passes, generation_reads |-> 2 * passes,
              opens |-> IF run.open_fails THEN 0 ELSE 1]

\* Every way a run of Topology::new can end
TopologyOutcomes == {Topology_new(run) : run \in TopologyRuns}

\* topology::acquire_system_properties, t being how Topology::new ends if it
\* is run: under the guard of GLOBAL_TOPOLOGY a topology is built and cached
\* if none is; when Topology::new fails nothing is cached and the error is
\* returned (topology stays 0), whatever it had scanned by then
acquire_system_properties(c, t) ==
    IF c.topology # 0 THEN c
    ELSE [c EXCEPT !.topology = IF t.ok THEN 1 ELSE 0, !.builds = @ + 1,
                   !.scans = @ + t.scans,
                   !.generation_reads = @ + t.generation_reads,
                   !.fd_opens = @ + t.opens]

\* A process in which no signal wait has run: no topology is cached yet
WaitSysStart ==
    /\ topo = [pc |-> "none"]
    /\ ctx = CtxStart
    /\ kev = [pc |-> "none"]

Threads == {"waiter", "producer"}
Locations == {"value", "waiting"}

\* A signal created with initial_value and its event, with no thread in a wait
\* or a store yet.  The history of a location is the sequence of the values
\* stored to it; the view of a thread is the oldest store it may still read.
WaitStartWith(initial_value, auto_reset) ==
    /\ atomics = [mem  |-> [value |-> <<initial_value>>, waiting |-> <<0>>],
                  view |-> [t \in Threads |-> [l \in Locations |-> 1]],
                  sc   |-> [l \in Locations |-> 1]]
    /\ sig_event = [signaled |-> FALSE, auto_reset |-> auto_reset,
                    view |-> [l \in Locations |-> 1]]
    /\ waiter = [pc |-> "idle", condition |-> "Eq", compare_value |-> 0,
                 finite |-> FALSE, hint |-> "Blocked", mwaitx |-> FALSE,
                 phase |-> "spin", val |-> initial_value, waits |-> 0,
                 read_old |-> FALSE, woken |-> FALSE,
                 timer |-> [use_tsc |-> TRUE, timeout |-> U64_MAX, elapsed |-> 0,
                            loads |-> 0, due |-> FALSE]]
    /\ producer = [pc |-> "idle", writes |-> 0, value |-> initial_value,
                   saw_waiting |-> FALSE, set_failed |-> FALSE,
                   loaded |-> [at |-> 0, val |-> initial_value],
                   op |-> [name |-> "store", order |-> "relaxed", wrote |-> FALSE],
                   ops |-> 0]

WaitStart == WaitStartWith(1, TRUE)

\* The signals a wait_any is followed on
GSignals == {1, 2}

\* Two signals created with the values initial, with no thread in a wait
GroupStartWith(initial) ==
    group = [value   |-> initial,
             waiting |-> [s \in GSignals |-> 0],
             writes  |-> 0,
             any     |-> [pc |-> "idle", signals |-> <<>>, conditions |-> <<>>,
                          values |-> <<>>, timeout |-> U64_MAX, hint |-> "Blocked",
                          use_tsc |-> TRUE, mwaitx |-> FALSE, elapsed |-> 0, i |-> 1,
                          pass |-> <<>>, val |-> 0, result |-> 0, due |-> FALSE],
             one     |-> [pc |-> "idle", signal |-> 1, condition |-> "Eq",
                          compare_value |-> 0, finite |-> FALSE]]

GroupStart == GroupStartWith([s \in GSignals |-> 0])

----------------------------------------------------------------------------
(* Direct use of one Aperture through the ApertureAllocator trait *)

\* At most MaxApCalls direct allocate_va calls are made in one behaviour.
MaxApCalls == 4

ApSizes == {Va(1), VaPages(1), VaPages(2), VaSub(VaMax, Va(PageSize - 1))}
ApAligns == {Va(0), VaPages(2)}

ApStart ==
    /\ ap_cur \in ApertureNames
    /\ ap_live = {}
    /\ ap_last = [op |-> "new", kind |-> "none", addr |-> Va(0), size |-> Va(0),
                  align |-> Va(0)]
    /\ ap_calls = 0

ApAllocate(size, align) ==
    LET r == allocate_va(ApCfg(ap_cur), apertures[ap_cur], size, align, overflow_checks)
    IN  /\ ap_last.kind # "panic"
        /\ ap_calls < MaxApCalls
        /\ ap_calls' = ap_calls + 1
        /\ apertures' = [apertures EXCEPT ![ap_cur] = r.allocs]
        /\ ap_live' = IF r.kind = "some"
                      THEN {x \in ap_live : x.addr # r.addr} \cup {[addr |-> r.addr, size |-> size]}
                      ELSE ap_live
        /\ ap_last' = [op |-> "allocate_va", kind |-> r.kind, addr |-> r.addr,
                       size |-> size, align |-> align]
        /\ UNCHANGED <<wait_vars, sig_vars, sys_vars, overflow_checks, ap_cur, mem_vars>>

ApFree(addr) ==
    LET r == free_va(ApCfg(ap_cur), apertures[ap_cur], addr, overflow_checks)
    IN  /\ ap_last.kind # "panic"
        /\ apertures' = [apertures EXCEPT ![ap_cur] = r.allocs]
        /\ ap_live' = {x \in ap_live : x.addr # addr}
        /\ ap_last' = [op |-> "free_va", kind |-> r.kind, addr |-> addr,
                       size |-> Va(0), align |-> Va(0)]
        /\ UNCHANGED <<wait_vars, sig_vars, sys_vars, overflow_checks, ap_cur, ap_calls,
                       mem_vars>>

ApFreeAddrs == {x.addr : x \in ap_live} \cup {Va(0), ApCfg(ap_cur).base}

ApNext ==
    \/ \E size \in ApSizes, align \in ApAligns : ApAllocate(size, align)
    \/ \E addr \in ApFreeAddrs : ApFree(addr)

ApInit == BuildInit /\ ApStart /\ MemStart /\ SigStart /\ SysStart /\ WaitStart
       /\ GroupStart

SpecAperture == ApInit /\ [][ApNext]_vars

GuardBytes(name) == VaPages(ApCfg(name).guard_pages)

InBounds(name, x) ==
    /\ VaLe(VaAdd(ApCfg(name).base, GuardBytes(name)), x.addr)
    /\ VaLe(x.addr, ApCfg(name).limit)
    /\ VaLe(VaAdd(x.addr, x.size), ApCfg(name).limit)

\* [addr - guard, addr + size + guard) of x and of y share no byte
GuardedDisjoint(name, x, y) ==
    \/ VaLe(VaAdd(VaAdd(x.addr, x.size), GuardBytes(name)), VaSub(y.addr, GuardBytes(name)))
    \/ VaLe(VaAdd(VaAdd(y.addr, y.size), GuardBytes(name)), VaSub(x.addr, GuardBytes(name)))

\* C1: every address returned by a successful allocate_va and not yet freed
\* lies in [base + guard_bytes, limit] with addr + size <= limit, and the
\* guarded ranges of any two such reservations do not overlap.
C1_LiveReservationsInBoundsAndDisjoint ==
    /\ \A x \in ap_live : InBounds(ap_cur, x)
    /\ \A x, y \in ap_live : x # y => GuardedDisjoint(ap_cur, x, y)

\* The i-th occupied range of an aperture in ascending order of its start
KeyAt(allocs, i) ==
    CHOOSE k \in DOMAIN allocs : Cardinality({j \in DOMAIN allocs : VaLt(j, k)}) = i - 1

\* val rounded up to a multiple of a, as a number: a is a whole number of
\* pages or a power of two below a page
RoundedUp(val, a) ==
    IF a.o = 0
    THEN VaPages(((val.p + (IF val.o > 0 THEN 1 ELSE 0) + a.p - 1) \div a.p) * a.p)
    ELSE [p |-> val.p + (((val.o + a.o - 1) \div a.o) * a.o) \div PageSize,
          o |-> (((val.o + a.o - 1) \div a.o) * a.o) % PageSize]

\* The candidate addresses of a request aligned to a: the aligned base (0)
\* and the aligned end of the i-th occupied range
Candidate(cfg, allocs, a, i) ==
    IF i = 0 THEN RoundedUp(cfg.base, a)
    ELSE RoundedUp(VaAdd(KeyAt(allocs, i), allocs[KeyAt(allocs, i)]), a)

\* Candidate i has a hole of r bytes before the next occupied range, or
\* reaches no further than the limit if it lies after the last one
Qualifies(cfg, allocs, a, r, i) ==
    IF i < Cardinality(DOMAIN allocs)
    THEN /\ VaLt(Candidate(cfg, allocs, a, i), KeyAt(allocs, i + 1))
         /\ VaLe(r, VaSub(KeyAt(allocs, i + 1), Candidate(cfg, allocs, a, i)))
    ELSE VaLe(VaAdd(Candidate(cfg, allocs, a, i), r), cfg.limit)

\* The step is a call allocate_va(size, align) that behaves as first fit
FirstFitStep ==
    LET cfg    == ApCfg(ap_cur)
        allocs == apertures[ap_cur]
        a      == VaMax2(ap_last'.align, cfg.align)
        r      == VaAdd(ap_last'.size, VaAdd(GuardBytes(ap_cur), GuardBytes(ap_cur)))
        q      == {i \in 0..Cardinality(DOMAIN allocs) : Qualifies(cfg, allocs, a, r, i)}
    IN  IF q = {}
        THEN ap_last'.kind = "none" /\ apertures' = apertures
        ELSE /\ ap_last'.kind = "some"
             /\ ap_last'.addr
                    = VaAdd(Candidate(cfg, allocs, a, SetMin(q)), GuardBytes(ap_cur))
             /\ apertures'[ap_cur] = Insert(allocs, Candidate(cfg, allocs, a, SetMin(q)), r)

\* C32: allocate_va is first fit: with A = max(align, self.align) and
\* R = size + 2 * guard_bytes it reserves (candidate, R) at the first
\* candidate, in ascending order from the aligned base and the aligned end of
\* each occupied range, that has a hole of R bytes before the next occupied
\* range, or that ends within the limit after the last one, and returns none
\* only if no candidate qualifies.
C32_AllocateVaIsFirstFit ==
    [][ap_calls' = ap_calls + 1 => FirstFitStep]_vars

\* C33: free_va(addr) removes the occupied range that starts at
\* addr - guard_bytes and changes nothing else; for an address that is not
\* tracked (never returned, already freed, or below guard_bytes) the occupied
\* ranges stay as they are, and the call does not panic.
C33_FreeVaRemovesExactlyTrackedEntry ==
    [][(ap_last'.op = "free_va" /\ ap_calls' = ap_calls)
         => /\ ap_last'.kind # "panic"
            /\ apertures' = [apertures EXCEPT
                               ![ap_cur] = Remove(@, VaSub(ap_last'.addr,
                                                           GuardBytes(ap_cur)))]]_vars

----------------------------------------------------------------------------
(* The kernel driver (KFD) as the thunk sees it: a black box that hands    *)
(* out memory handles and queue ids and may fail any ioctl.                *)

\* The kernel grants at most MaxHandles memory handles and MaxQueueIds queue ids.
MaxHandles == 7
MaxQueueIds == 2

NoAlloc == [handle |-> 0]

Ev(s, e) == [s EXCEPT !.tr = Append(@, e)]

\* AMDKFD_IOC_ALLOC_MEMORY_OF_GPU fails on request, when no handle is left, and
\* when [va_addr, va_addr + size) does not fit in the address space.
KAllocFails(s, va_addr, size, fail) ==
    fail = "alloc" \/ s.kfd.next > MaxHandles \/ VaOver(VaAdd(va_addr, size))

\* The kernel grants handle h, the next one.
KAlloc(s, h) ==
    Ev([s EXCEPT !.kfd.live = @ \cup {h}, !.kfd.next = h + 1], <<"alloc", h>>)

\* AMDKFD_IOC_FREE_MEMORY_OF_GPU on handle h.  The call is counted; it releases
\* h unless the kernel refuses (EPERM for pinned pages, or another error).
KFree(s, h, fault) ==
    Ev([s EXCEPT !.kfd.free_calls = [x \in DOMAIN @ \cup {h} |->
                                        IF x = h
                                        THEN (IF h \in DOMAIN @ THEN @[h] ELSE 0) + 1
                                        ELSE @[x]],
                 !.kfd.live = IF fault \in {"free_eperm", "free_err"} THEN @ ELSE @ \ {h}],
       <<"free", h>>)

KUnmap(s, h) == Ev(s, <<"unmap", h>>)

KMap(s, h) == Ev(s, <<"map", h>>)

----------------------------------------------------------------------------
(* MemoryManager (thunk/memory/manager.rs) *)

NoNode == 0 - 1
CpuNode == 0
GpuNode == 1
GpuId == 7

\* node_to_gpu_id, built from the nodes with kfd_gpu_id != 0
node_to_gpu_id == [n \in {GpuNode} |-> GpuId]

\* MemoryManager::get_gpu_id, as Allocation::drop calls it; 0 stands for None
get_gpu_id(node_id) ==
    IF node_id \in DOMAIN node_to_gpu_id THEN node_to_gpu_id[node_id] ELSE 0

AllocFlagsNew ==
    [vram |-> FALSE, gtt |-> FALSE, doorbell |-> FALSE, host_access |-> FALSE,
     coherent |-> FALSE, uncached |-> FALSE, scratch |-> FALSE, lds |-> FALSE]

FlagVram(f) == [f EXCEPT !.vram = TRUE]
FlagGtt(f) == [f EXCEPT !.gtt = TRUE, !.host_access = TRUE, !.coherent = TRUE]
FlagHostAccess(f) == [f EXCEPT !.host_access = TRUE]
FlagCoherent(f) == [f EXCEPT !.coherent = TRUE]

\* The aperture `allocate` selects; "none" when the node has no GPU apertures.
SelectAperture(flags, node_id) ==
    IF flags.scratch THEN (IF node_id = GpuNode THEN "scratch" ELSE "none")
    ELSE IF flags.lds THEN (IF node_id = GpuNode THEN "lds" ELSE "none")
    ELSE IF flags.coherent \/ flags.uncached \/ flags.doorbell THEN "svm_alt"
    ELSE "svm"

\* MemoryManager::free_va_from_flags
free_va_from_flags_always_default(s, addr, flags, node_id) ==
    Ev([s EXCEPT !.ap["svm"] = free_va(ApCfg("svm"), @, addr, FALSE).allocs],
       <<"free_va", addr>>)

free_va_from_flags_uncached_to_default(s, addr, flags, node_id) ==
    LET name == IF flags.scratch THEN (IF node_id = GpuNode THEN "scratch" ELSE "none")
                ELSE IF flags.lds THEN (IF node_id = GpuNode THEN "lds" ELSE "none")
                ELSE IF flags.coherent \/ flags.doorbell THEN "svm_alt"
                ELSE "svm"
    IN  IF name = "none" THEN s
        ELSE Ev([s EXCEPT !.ap[name] = free_va(ApCfg(name), @, addr, FALSE).allocs],
                <<"free_va", addr>>)

free_va_from_flags(s, addr, flags, node_id) ==
    LET name == IF flags.scratch THEN (IF node_id = GpuNode THEN "scratch" ELSE "none")
                ELSE IF flags.lds THEN (IF node_id = GpuNode THEN "lds" ELSE "none")
                ELSE IF flags.coherent \/ flags.uncached \/ flags.doorbell THEN "svm_alt"
                ELSE "svm"
    IN  IF name = "none" THEN s
        ELSE Ev([s EXCEPT !.ap[name] = free_va(ApCfg(name), @, addr, FALSE).allocs],
                <<"free_va", addr>>)

\* MemoryManager::allocate.  fail names the kernel step that is made to fail:
\* "none" | "alloc" | "map" | "mmap".  res: "ok" | "err" | "panic";
\* at: the step at which the call ended.
allocate(s, size0, align, flags, node_opt, fail, checks) ==
    LET size      == IF size0 = Va(0) THEN Va(4096) ELSE size0
        node_id   == IF node_opt # NoNode THEN node_opt
                     ELSE IF DOMAIN node_to_gpu_id = {} THEN 0
                     ELSE SetMin(DOMAIN node_to_gpu_id)
        name      == SelectAperture(flags, node_id)
        wants_cpu == flags.host_access \/ flags.doorbell
        Result(t, res, at, code, a) ==
            [s |-> t, res |-> res, at |-> at, code |-> code, alloc |-> a]
        \* steps 4 to 6, with the range at va_addr reserved in s1
        Kernel(va_addr, s1, h) ==
            IF KAllocFails(s1, va_addr, size, fail)
            THEN Result(free_va_from_flags(Ev(s1, <<"alloc_failed", 0>>),
                                           va_addr, flags, node_id),
                        "err", "alloc", 0 - 1, NoAlloc)
            ELSE IF fail = "map"
            THEN Result(free_va_from_flags(
                            KFree(Ev(KAlloc(s1, h), <<"map_failed", h>>), h, "none"),
                            va_addr, flags, node_id),
                        "err", "map", 0 - 1, NoAlloc)
            ELSE IF wants_cpu /\ fail = "mmap"
            THEN Result(free_va_from_flags(
                            KFree(KUnmap(Ev(KMap(KAlloc(s1, h), h), <<"mmap_failed", h>>), h),
                                  h, "none"),
                            va_addr, flags, node_id),
                        "err", "mmap", 0 - 1, NoAlloc)
            ELSE Result([(IF wants_cpu THEN Ev(KMap(KAlloc(s1, h), h), <<"mmap", h>>)
                          ELSE KMap(KAlloc(s1, h), h))
                            EXCEPT !.mgr = Insert(@, h, [ptr_mapped |-> wants_cpu,
                                                         size |-> size, gpu_va |-> va_addr,
                                                         node_id |-> node_id])],
                        "ok", "done", 0,
                        [handle |-> h, gpu_va |-> va_addr, size |-> size,
                         ptr_mapped |-> wants_cpu, node_id |-> node_id, flags |-> flags])
        \* step 2, r the outcome of allocate_va
        Reserve(r) ==
            IF r.kind = "panic"
            THEN Result([s EXCEPT !.ap[name] = r.allocs], "panic", "va", 0, NoAlloc)
            ELSE IF r.kind = "none"
            THEN Result(s, "err", "va", 0 - 12, NoAlloc)
            ELSE Kernel(r.addr, [s EXCEPT !.ap[name] = r.allocs], s.kfd.next)
    IN  IF name = "none" THEN Result(s, "err", "aperture", 0 - 1, NoAlloc)
        ELSE Bind(allocate_va(ApCfg(name), s.ap[name], size, align, checks),
                  LAMBDA r : Reserve(r))

\* BuilderMemoryManager::allocate_gpu_memory for MemoryManager
allocate_gpu_memory(s, size, align, vram, public, fail, checks) ==
    LET f1 == IF vram THEN FlagVram(AllocFlagsNew) ELSE FlagGtt(AllocFlagsNew)
        f2 == IF public THEN FlagHostAccess(f1) ELSE f1
    IN  allocate(s, size, align, FlagCoherent(f2), NoNode, fail, checks)

\* MemoryManager::map_doorbell.  fail: "none" | "alloc" | "mmap".
map_doorbell(s, node_id, gpu_id, doorbell_offset, size, fail, checks) ==
    LET Result(t, res, ptr, h) == [s |-> t, res |-> res, ptr |-> ptr, handle |-> h]
        Undo(t, va_addr) ==
            Ev([t EXCEPT !.ap["svm_alt"] =
                    free_va(ApCfg("svm_alt"), @, va_addr, checks).allocs],
               <<"free_va", va_addr>>)
        Kernel(va_addr, s1, h) ==
            IF KAllocFails(s1, va_addr, size, fail)
            THEN Result(Undo(Ev(s1, <<"alloc_failed", 0>>), va_addr), "err", Va(0), 0)
            ELSE IF fail = "mmap"
            THEN Result(Undo(KFree(Ev(KAlloc(s1, h), <<"mmap_failed", h>>), h, "none"),
                             va_addr),
                        "err", Va(0), 0)
            ELSE Result([Ev(KAlloc(s1, h), <<"mmap", h>>)
                            EXCEPT !.mgr = Insert(@, h, [ptr_mapped |-> TRUE, size |-> size,
                                                         gpu_va |-> va_addr,
                                                         node_id |-> node_id])],
                        "ok", va_addr, h)
        Reserve(r) ==
            IF r.kind = "panic"
            THEN Result([s EXCEPT !.ap["svm_alt"] = r.allocs], "panic", Va(0), 0)
            ELSE IF r.kind = "none" THEN Result(s, "err", Va(0), 0)
            ELSE Kernel(r.addr, [s EXCEPT !.ap["svm_alt"] = r.allocs], s.kfd.next)
    IN  Bind(allocate_va(ApCfg("svm_alt"), s.ap["svm_alt"], size, Va(4096), checks),
             LAMBDA r : Reserve(r))

\* The aperture whose bounds hold gpu_va, as free_memory looks for it: the
\* default one, the alt one, then Scratch and LDS of the node
aperture_of_address(gpu_va, node_id) ==
    LET Within(name) == VaLe(ApCfg(name).base, gpu_va) /\ VaLt(gpu_va, ApCfg(name).limit)
    IN  IF Within("svm") THEN "svm"
        ELSE IF Within("svm_alt") THEN "svm_alt"
        ELSE IF node_id # GpuNode THEN "none"
        ELSE IF Within("scratch") THEN "scratch"
        ELSE IF Within("lds") THEN "lds"
        ELSE "none"

\* MemoryManager::free_memory (and free_gpu_memory, which forwards to it): a
\* handle the map does not hold is ignored; fault: the free ioctl the kernel
\* refuses, whose error is dropped
free_memory(s, handle, fault) ==
    LET alloc == s.mgr[handle]
        s1    == [s EXCEPT !.mgr = Remove(@, handle)]
        s2    == IF alloc.ptr_mapped THEN Ev(s1, <<"munmap", handle>>) ELSE s1
        s3    == KFree(s2, handle, fault)
        name  == aperture_of_address(alloc.gpu_va, alloc.node_id)
    IN  IF handle \notin DOMAIN s.mgr THEN s
        ELSE IF name = "none" THEN s3
        ELSE Ev([s3 EXCEPT !.ap[name] = free_va(ApCfg(name), @, alloc.gpu_va, FALSE).allocs],
                <<"free_va", alloc.gpu_va>>)

----------------------------------------------------------------------------
(* Allocation (thunk/memory/mod.rs) *)

\* impl Drop for Allocation, before it locks the manager: the CPU mapping is
\* unmapped if there is one
AllocationDropUnmap(s, a) ==
    IF a.ptr_mapped THEN Ev(s, <<"munmap", a.handle>>) ELSE s

AllocationDropLocked_stops_after_unmap_error(s, a, pz, fault) ==
    LET s2 == free_va_from_flags(s, a.gpu_va, a.flags, a.node_id)
        s3 == IF get_gpu_id(a.node_id) # 0 THEN KUnmap(s2, a.handle) ELSE s2
    IN  IF pz THEN (IF a.handle # 0 THEN KFree(s, a.handle, fault) ELSE s)
        ELSE IF fault = "unmap" /\ get_gpu_id(a.node_id) # 0 THEN s3
        ELSE (IF a.handle # 0 THEN KFree(s3, a.handle, fault) ELSE s3)

\* impl Drop for Allocation, from manager_handle.lock() on.  With the guard:
\* free_va_from_flags, the unmap ioctl if the node has a GPU id, the free
\* ioctl if the handle is not 0.  pz, the mutex is poisoned: the free ioctl
\* alone.  fault: the ioctl the kernel fails; no error stops a later step.
AllocationDropLocked(s, a, pz, fault) ==
    LET s2 == free_va_from_flags(s, a.gpu_va, a.flags, a.node_id)
        s3 == IF get_gpu_id(a.node_id) # 0 THEN KUnmap(s2, a.handle) ELSE s2
    IN  IF pz THEN (IF a.handle # 0 THEN KFree(s, a.handle, fault) ELSE s)
        ELSE (IF a.handle # 0 THEN KFree(s3, a.handle, fault) ELSE s3)

\* impl Drop for Allocation run by a thread that gets the manager's mutex as
\* soon as it asks, or that holds it already (lock_held): that thread has
\* unmapped and then waits for itself for ever.
AllocationDrop(s, a, lock_held, pz, fault) ==
    IF s.stuck THEN s
    ELSE IF lock_held THEN [AllocationDropUnmap(s, a) EXCEPT !.stuck = TRUE]
    ELSE AllocationDropLocked(AllocationDropUnmap(s, a), a, pz, fault)

\* The drop of an Allocation as the steps of the thread that runs it: other
\* threads run between the munmap and the lock
AllocationDropSteps(fields) ==
    [i \in 1..(2 * Len(fields)) |->
        [op |-> IF i % 2 = 1 THEN "munmap" ELSE "locked", alloc |-> fields[(i + 1) \div 2]]]

\* Drop of an Option<Allocation>
OptionDrop(s, a, lock_held, pz, fault) ==
    IF a = NoAlloc THEN s ELSE AllocationDrop(s, a, lock_held, pz, fault)

----------------------------------------------------------------------------
(* QueueBuilder and HsaQueue (thunk/queues/builder.rs) *)

QueueTypes == {"Compute", "Sdma"}

\* QueueBuilder::calculate_eop_size
calculate_eop_size(gfx_version, is_compute) ==
    LET major == (gfx_version \div 10000) % 100
        minor == (gfx_version \div 100) % 100
    IN  IF major = 9 /\ minor = 4 THEN (IF is_compute THEN 4096 ELSE 0)
        ELSE IF major >= 8 THEN 4096
        ELSE 0

\* QueueBuilder::alloc_eop: VRAM first, then GTT.  fault "eop_vram" fails the
\* first kernel allocation, fault "eop" fails both.
alloc_eop(s, gfx_version, is_compute, fault, checks) ==
    LET eop_size == calculate_eop_size(gfx_version, is_compute)
        Fallback(alloc_res) ==
            IF alloc_res.res \in {"ok", "panic"} THEN alloc_res
            ELSE allocate_gpu_memory(alloc_res.s, Va(eop_size), Va(4096), FALSE, TRUE,
                                     IF fault = "eop" THEN "alloc" ELSE "none", checks)
    IN  IF eop_size = 0 THEN [s |-> s, res |-> "ok", at |-> "done", alloc |-> NoAlloc]
        ELSE Bind(allocate_gpu_memory(s, Va(eop_size), Va(4096), TRUE, TRUE,
                      IF fault \in {"eop_vram", "eop"} THEN "alloc" ELSE "none", checks),
                  LAMBDA alloc_res : Fallback(alloc_res))

\* QueueBuilder::alloc_cwsr.  props.cwsr_total is total_mem_alloc_size of
\* cwsr::calculate_sizes(node_props), 0 when that returns None.
alloc_cwsr(s, props, is_compute, fault, checks) ==
    IF props.gfx_target_version >= 80000 /\ is_compute /\ props.cwsr_total # 0
    THEN allocate_gpu_memory(s, Va(props.cwsr_total), Va(4096), FALSE, FALSE,
                             IF fault = "cwsr" THEN "alloc" ELSE "none", checks)
    ELSE [s |-> s, res |-> "ok", at |-> "done", alloc |-> NoAlloc]

\* QueueBuilder::alloc_pointers
alloc_pointers(s, fault, checks) ==
    allocate_gpu_memory(s, Va(4096), Va(4096), FALSE, TRUE,
                        IF fault = "ptr" THEN "alloc" ELSE "none", checks)

\* x & m on unsigned numbers
BitAnd(x, m) == x - AndNot(x, m)

\* QueueBuilder::resolve_doorbell_ptr
resolve_doorbell_ptr(s, node_id, props, kernel_offset, fault, checks) ==
    LET gfx_version        == props.gfx_target_version
        is_soc15           == gfx_version >= 90000
        doorbell_page_size == (IF gfx_version >= 90000 THEN 8 ELSE 4) * 1024
        mask               == doorbell_page_size - 1
        mmap_offset        == IF is_soc15 THEN AndNot(kernel_offset, mask) ELSE kernel_offset
        ptr_offset         == IF is_soc15 THEN BitAnd(kernel_offset, mask) ELSE 0
        Resolved(m) ==
            [s |-> m.s, res |-> m.res, handle |-> m.handle, base |-> m.ptr,
             ptr |-> IF m.res = "ok" THEN VaAdd(m.ptr, Va(ptr_offset)) ELSE Va(0)]
    IN  Bind(map_doorbell(s, node_id, props.kfd_gpu_id, mmap_offset,
                          Va(doorbell_page_size),
                          IF fault = "doorbell_alloc" THEN "alloc"
                          ELSE IF fault = "doorbell_mmap" THEN "mmap" ELSE "none",
                          checks),
             LAMBDA m : Resolved(m))

\* AMDKFD_IOC_CREATE_QUEUE fails on request or when no queue id is left.
KCreateQueueFails(s, fault) == fault = "create_queue" \/ s.kfd.next_q > MaxQueueIds

KCreateQueue(s) ==
    Ev([s EXCEPT !.kfd.queues = @ \cup {s.kfd.next_q}, !.kfd.next_q = @ + 1],
       <<"create_queue", s.kfd.next_q>>)

\* AMDKFD_IOC_DESTROY_QUEUE: the call is made; the queue dies unless it fails.
KDestroyQueue(s, qid, fault) ==
    Ev(IF fault = "destroy" THEN s ELSE [s EXCEPT !.kfd.queues = @ \ {qid}],
       <<"destroy_queue", qid>>)

\* The locals of create that hold Allocations go out of scope on an early
\* return, last declared first.  create runs on the caller's borrow of the
\* manager, that is, under the caller's MutexGuard: lock_held.
DropLocals(s, locals, lock_held, pz) ==
    LET RECURSIVE go(_, _)
        go(t, i) == IF i = 0 THEN t
                    ELSE go(OptionDrop(t, locals[i], lock_held, pz, "none"), i - 1)
    IN  go(s, Len(locals))

NoQueue == [queue_id |-> 0]

\* The queue record carries, besides the fields of HsaQueue, the kernel handle
\* and the base address of its doorbell page (doorbell_handle, doorbell_base),
\* which HsaQueue itself does not keep.

\* QueueBuilder::create.  fault names the step the kernel fails:
\* "none" | "eop_vram" | "eop" | "cwsr" | "ptr" | "create_queue" |
\* "doorbell_alloc" | "doorbell_mmap".  e, c, p, d are the outcomes of
\* alloc_eop, alloc_cwsr, alloc_pointers and resolve_doorbell_ptr.
create(s, node_id, props, queue_type, kernel_offset, fault, lock_held, checks) ==
    LET is_compute == queue_type \in {"Compute", "ComputeAql"}
        Fail(t, res, locals, at) ==
            [s |-> DropLocals(t, locals, lock_held, res = "panic"), res |-> res,
             at |-> at, queue |-> NoQueue]
        Step7(e, c, p, queue_id, d) ==
            IF d.res # "ok"
            THEN Fail(d.s, d.res, <<e.alloc, c.alloc, p.alloc>>, "doorbell")
            ELSE [s |-> d.s, res |-> "ok", at |-> "done",
                  queue |-> [queue_id |-> queue_id, queue_doorbell |-> d.ptr,
                             queue_read_ptr |-> p.alloc.gpu_va,
                             queue_write_ptr |-> VaAdd(p.alloc.gpu_va, Va(8)),
                             eop_mem |-> e.alloc, cwsr_mem |-> c.alloc,
                             ptr_mem |-> p.alloc,
                             doorbell_handle |-> d.handle, doorbell_base |-> d.base]]
        Step5(e, c, p) ==
            IF p.res # "ok" THEN Fail(p.s, p.res, <<e.alloc, c.alloc>>, "ptr")
            ELSE IF KCreateQueueFails(p.s, fault)
            THEN Fail(Ev(p.s, <<"create_queue_failed", 0>>), "err",
                      <<e.alloc, c.alloc, p.alloc>>, "create_queue")
            ELSE Bind(resolve_doorbell_ptr(KCreateQueue(p.s), node_id, props,
                                           kernel_offset, fault, checks),
                      LAMBDA d : Step7(e, c, p, p.s.kfd.next_q, d))
        Step3(e, c) ==
            IF c.res # "ok" THEN Fail(c.s, c.res, <<e.alloc>>, "cwsr")
            ELSE Bind(alloc_pointers(c.s, fault, checks), LAMBDA p : Step5(e, c, p))
        Step2(e) ==
            IF e.res # "ok" THEN Fail(e.s, e.res, <<>>, "eop")
            ELSE Bind(alloc_cwsr(e.s, props, is_compute, fault, checks),
                      LAMBDA c : Step3(e, c))
    IN  Bind(alloc_eop(s, props.gfx_target_version, is_compute, fault, checks),
             LAMBDA e : Step2(e))

\* The explicit free in HsaQueue::drop of one Option<Allocation> field
ExplicitFree(s, a, fault) == IF a = NoAlloc THEN s ELSE KFree(s, a.handle, fault)

\* What the thread that drops the queue q does, in order.  impl Drop for
\* HsaQueue issues the destroy-queue ioctl and a free ioctl for each field
\* that is Some, none of them under the manager's mutex; then the fields are
\* dropped in declaration order eop_mem, cwsr_mem, ptr_mem, and the drop of
\* each Allocation unmaps and then locks the manager for itself.  Other
\* threads run between any two of these steps.
HsaQueueDrop(q) ==
    LET fields == SelectSeq(<<q.eop_mem, q.cwsr_mem, q.ptr_mem>>, LAMBDA a : a # NoAlloc)
    IN  <<[op |-> "destroy_queue", alloc |-> NoAlloc]>>
        \o [i \in 1..Len(fields) |-> [op |-> "free", alloc |-> fields[i]]]
        \o AllocationDropSteps(fields)

\* One step of the drop of the queue q or of an Allocation.  pz: the
\* manager's mutex is poisoned when the drop of the Allocation locks it;
\* fault: the ioctl the kernel fails.
HsaQueueDropStep(s, q, step, pz, fault) ==
    CASE step.op = "destroy_queue" -> KDestroyQueue(s, q.queue_id, fault)
      [] step.op = "free" -> ExplicitFree(s, step.alloc, fault)
      [] step.op = "munmap" -> AllocationDropUnmap(s, step.alloc)
      [] step.op = "locked" -> AllocationDropLocked(s, step.alloc, pz, fault)

----------------------------------------------------------------------------
(* Clients of the shared manager: allocate, drop an Allocation, create and  *)
(* drop a queue.  Every client call locks Arc<Mutex<MemoryManager>> first.  *)

\* A behaviour makes at most MaxCalls calls of allocate and create together.
MaxCalls == 2

MemSizes == {Va(0), VaSub(VaMax, Va(PageSize - 1))}
MemAligns == {Va(0)}
MemNodes == {NoNode, CpuNode}
AllocateFails == {"none", "alloc", "map", "mmap"}
DropFaults == {"none", "unmap", "free_eperm", "free_err"}
QueueDropFaults == {"none", "destroy", "free_err"}
CreateFaults == {"none", "eop_vram", "eop", "cwsr", "ptr", "create_queue",
                 "doorbell_alloc", "doorbell_mmap"}
KernelOffsets == {2 * PageSize + 16}

FlagPresets ==
    {FlagVram(AllocFlagsNew), FlagGtt(AllocFlagsNew),
     [AllocFlagsNew EXCEPT !.scratch = TRUE]}

\* HsaNodeProperties of the GPU node, as far as create reads them
NodeProps ==
    {[gfx_target_version |-> 70000, kfd_gpu_id |-> GpuId, cwsr_total |-> 0],
     [gfx_target_version |-> 90000, kfd_gpu_id |-> GpuId, cwsr_total |-> PageSize]}

Cur == [ap |-> apertures, kfd |-> kfd, mgr |-> mgr_allocations, tr |-> <<>>,
        stuck |-> stuck]

\* The manager's mutex can be locked: no thread is stuck on it, and no thread
\* is inside Signal::new, which runs under its caller's guard of the manager
ManagerFree == ~stuck /\ sig_ops.create.pc = "idle"

FreeFaults == {"none", "free_err"}

\* The handles a client passes to free_memory: those of the Allocations it
\* owns (Allocation.handle is public; the fields of an HsaQueue are not) and
\* one the manager never handed out
FreeHandles == {a.handle : a \in owned} \cup {0}

Commit(s) ==
    /\ apertures' = s.ap
    /\ kfd' = s.kfd
    /\ mgr_allocations' = s.mgr
    /\ stuck' = s.stuck

QueueHandles(q) ==
    {a.handle : a \in {q.eop_mem, q.cwsr_mem, q.ptr_mem} \ {NoAlloc}}

\* mgr.lock().unwrap().allocate(..)
MemAllocate(size, align, flags, node_opt, fail) ==
    /\ ManagerFree /\ ~poisoned
    /\ calls < MaxCalls
    /\ \E r \in {allocate(Cur, size, align, flags, node_opt, fail, overflow_checks)} :
        /\ calls' = calls + 1
        /\ Commit(r.s)
        /\ owned' = IF r.res = "ok" THEN owned \cup {r.alloc} ELSE owned
        /\ poisoned' = (r.res = "panic")
        /\ last' = [op |-> "allocate", res |-> r.res, trace |-> r.s.tr,
                    arg |-> [at |-> r.at, code |-> r.code], pz |-> FALSE]
        /\ UNCHANGED <<wait_vars, sig_vars, sys_vars, overflow_checks, ap_vars, queues,
                       dropping, ghost>>

\* mgr.lock().unwrap().free_memory(&device, handle)
MemFree(handle, fault) ==
    /\ ManagerFree /\ ~poisoned
    /\ \E r \in {free_memory(Cur, handle, fault)} :
        /\ Commit(r)
        /\ last' = [op |-> "free_memory", res |-> "ok", trace |-> r.tr,
                    arg |-> [handle |-> handle, fault |-> fault], pz |-> FALSE]
        /\ UNCHANGED <<wait_vars, sig_vars, sys_vars, overflow_checks, ap_vars, owned,
                       queues, dropping, poisoned, ghost, calls>>

\* QueueBuilder::new(&device, &mut *mgr.lock().unwrap(), ..).create()
QueueCreate(props, queue_type, kernel_offset, fault) ==
    /\ ManagerFree /\ ~poisoned
    /\ calls < MaxCalls
    /\ \E r \in {create(Cur, GpuNode, props, queue_type, kernel_offset, fault, TRUE,
                        overflow_checks)} :
        /\ calls' = calls + 1
        /\ Commit(r.s)
        /\ queues' = IF r.res = "ok" THEN queues \cup {r.queue} ELSE queues
        /\ poisoned' = (r.res = "panic")
        /\ last' = [op |-> "create", res |-> IF r.s.stuck THEN "stuck" ELSE r.res,
                    trace |-> r.s.tr, arg |-> [at |-> r.at, queue |-> r.queue],
                    pz |-> FALSE]
        /\ UNCHANGED <<wait_vars, sig_vars, sys_vars, overflow_checks, ap_vars, owned,
                       dropping, ghost>>

\* The handles of the Allocations the thread d is dropping
DropHandles(d) ==
    IF d.queue = NoQueue THEN {d.alloc.handle} ELSE QueueHandles(d.queue)

\* The thread d, which is dropping an Allocation or a queue, takes its next
\* step; others are the other threads inside a drop.  The second part of the
\* drop of an Allocation waits for the manager's mutex.  When nothing is left
\* to do the drop is complete: last is then the whole drop, with the trace of
\* all its steps.
DropAdvance(d, others) ==
    /\ Head(d.todo).op = "locked" => ManagerFree
    /\ \E r \in {HsaQueueDropStep(Cur, d.queue, Head(d.todo), poisoned, d.fault)} :
        /\ Commit(r)
        /\ dropping' = IF Len(d.todo) = 1 THEN others
                       ELSE others \cup {[d EXCEPT !.todo = Tail(@), !.trace = @ \o r.tr]}
        /\ ghost' = IF Len(d.todo) = 1
                    THEN [dropped  |-> ghost.dropped \cup DropHandles(d),
                          qdropped |-> ghost.qdropped \cup ({d.queue} \ {NoQueue})]
                    ELSE ghost
        /\ last' = [op |-> IF d.queue = NoQueue
                           THEN (IF Len(d.todo) = 1 THEN "drop" ELSE "dropping")
                           ELSE (IF Len(d.todo) = 1 THEN "queue_drop" ELSE "queue_dropping"),
                    res |-> "ok", trace |-> d.trace \o r.tr,
                    arg |-> IF d.queue = NoQueue THEN [alloc |-> d.alloc, fault |-> d.fault]
                            ELSE [queue |-> d.queue, fault |-> d.fault],
                    pz |-> poisoned]
        /\ UNCHANGED <<wait_vars, sig_vars, ctx, kev, overflow_checks, ap_vars, poisoned,
                       calls>>

\* drop(allocation): the client gives the Allocation up and its drop unmaps
\* the CPU mapping, whoever holds the manager's mutex
MemDrop(a, fault) ==
    /\ a \in owned
    /\ owned' = owned \ {a}
    /\ DropAdvance([queue |-> NoQueue, alloc |-> a, fault |-> fault,
                    todo |-> AllocationDropSteps(<<a>>), trace |-> <<>>], dropping)
    /\ UNCHANGED <<queues, topo>>

\* drop(queue): the client gives the queue up and HsaQueue::drop issues the
\* destroy-queue ioctl
QueueDrop(q, fault) ==
    /\ q \in queues
    /\ queues' = queues \ {q}
    /\ DropAdvance([queue |-> q, alloc |-> NoAlloc, fault |-> fault,
                    todo |-> HsaQueueDrop(q), trace |-> <<>>], dropping)
    /\ UNCHANGED <<owned, topo>>

\* The next step of a drop under way: the locked part of the drop of an
\* Allocation, the next free ioctl of HsaQueue::drop, the drop of its next
\* field
DropStep(d) ==
    /\ d \in dropping
    /\ DropAdvance(d, dropping \ {d})
    /\ UNCHANGED <<owned, queues, topo>>

MemNext ==
    \/ \E size \in MemSizes, align \in MemAligns, flags \in FlagPresets,
          node_opt \in MemNodes, fail \in AllocateFails :
            MemAllocate(size, align, flags, node_opt, fail)
    \/ \E h \in FreeHandles, fault \in FreeFaults : MemFree(h, fault)
    \/ \E d \in dropping : DropStep(d)
    \/ \E a \in owned, fault \in DropFaults : MemDrop(a, fault)
    \/ \E props \in NodeProps, queue_type \in QueueTypes,
          kernel_offset \in KernelOffsets, fault \in CreateFaults :
            QueueCreate(props, queue_type, kernel_offset, fault)
    \/ \E q \in queues, fault \in QueueDropFaults : QueueDrop(q, fault)

MemInit == BuildInit /\ ApStart /\ ap_cur = "svm" /\ MemStart /\ SigStart
    /\ SysStart
       /\ WaitStart
       /\ GroupStart

SpecMem == MemInit /\ [][MemNext]_vars

----------------------------------------------------------------------------
(* Properties of the memory manager, the Allocation and the queue *)

SetMax(S) == CHOOSE x \in S : \A y \in S : x >= y

\* The positions of event e in trace tr
EvIdx(tr, e) == {i \in 1..Len(tr) : tr[i] = e}

Occurs(tr, e) == EvIdx(tr, e) # {}

\* Every occurrence of e1 in tr comes before every occurrence of e2
Before(tr, e1, e2) == \A i \in EvIdx(tr, e1), j \in EvIdx(tr, e2) : i < j

FreeCalls(h) == IF h \in DOMAIN kfd.free_calls THEN kfd.free_calls[h] ELSE 0

\* The handles an Allocation owns or owned
OwnedHandles ==
    {a.handle : a \in owned} \cup UNION {QueueHandles(q) : q \in queues}
        \cup UNION {DropHandles(d) : d \in dropping} \cup ghost.dropped

\* C3: each kernel memory handle owned by an Allocation is passed to the
\* free-memory ioctl at most once, and exactly once by the time its owner has
\* been dropped; this includes the EOP, CWSR and pointer-page allocations of a
\* dropped queue.
C3_EachOwnedHandleFreedExactlyOnce ==
    \A h \in OwnedHandles :
        /\ FreeCalls(h) <= 1
        /\ h \in ghost.dropped => FreeCalls(h) = 1

\* The kernel handles obtained in trace tr
AllocatedIn(tr) == {tr[i][2] : i \in {j \in 1..Len(tr) : tr[j][1] = "alloc"}}

\* C4: when allocate fails at the kernel-alloc, map-to-GPU or mmap step, every
\* aperture's occupied map is what it was before the call, every kernel handle
\* obtained during the call has been freed (after the unmap-from-GPU in the
\* mmap-failure case), and an error code is returned.
C4_FailedAllocateUnwinds ==
    [][(last'.op = "allocate" /\ last'.res = "err"
            /\ last'.arg.at \in {"alloc", "map", "mmap"}) =>
        /\ apertures' = apertures
        /\ kfd'.live = kfd.live
        /\ last'.arg.code < 0
        /\ \A h \in AllocatedIn(last'.trace) :
              /\ Cardinality(EvIdx(last'.trace, <<"free", h>>)) = 1
              /\ Before(last'.trace, <<"alloc", h>>, <<"free", h>>)
              /\ last'.arg.at = "mmap" =>
                    /\ Occurs(last'.trace, <<"unmap", h>>)
                    /\ Before(last'.trace, <<"unmap", h>>, <<"free", h>>)]_vars

C4_Witness_MmapFailureUnwound ==
    /\ last.op = "allocate" /\ last.res = "err" /\ last.arg.at = "mmap"
    /\ AllocatedIn(last.trace) # {}

\* C5: whenever an Allocation's drop runs, the dropping thread does not hold
\* the manager mutex, so the drop acquires it and completes; this covers the
\* Allocations dropped on the failure paths inside QueueBuilder::create.
C5_AllocationDropNeverRelocks == ~stuck

\* C6: when create fails at any step (EOP, CWSR or pointer-page allocation,
\* the create-queue ioctl, the doorbell mapping), no kernel queue created by
\* the call remains alive and every allocation made by the call has been
\* released: its VA range is back in its aperture, its kernel handle is freed.
C6_FailedCreateLeavesNothing ==
    [][(last'.op = "create" /\ last'.res # "ok") =>
        /\ kfd'.queues = kfd.queues
        /\ kfd'.live = kfd.live
        /\ apertures' = apertures]_vars

\* The EOP, CWSR and pointer-page handles of queue q in order of creation
CreationOrder(q) ==
    SelectSeq(<<q.eop_mem, q.cwsr_mem, q.ptr_mem>>, LAMBDA a : a # NoAlloc)

\* The position in tr at which the release of handle h is complete
ReleasedAt(tr, h) == SetMax(EvIdx(tr, <<"free", h>>))

DestroyQueueFirst(tr, q) ==
    /\ Len(tr) > 0
    /\ tr[1] = <<"destroy_queue", q.queue_id>>
    /\ \A i \in 2..Len(tr) : tr[i][1] # "destroy_queue"

\* C8: on queue drop the destroy-queue ioctl comes before any unmap or free
\* of the queue's memory, and the contained allocations are released in
\* reverse order of their creation.
C8_ReleasedInReverseCreationOrder ==
    last.op = "queue_drop" =>
        LET q == last.arg.queue
            c == CreationOrder(q)
        IN  /\ DestroyQueueFirst(last.trace, q)
            /\ \A i, j \in 1..Len(c) :
                  i < j => ReleasedAt(last.trace, c[j].handle)
                              < ReleasedAt(last.trace, c[i].handle)

\* What the code keeps: the destroy-queue ioctl comes first, and the contained
\* allocations are released in the order of their creation: EOP, CWSR,
\* pointer page.
C8_ReleasedInCreationOrder ==
    last.op = "queue_drop" =>
        LET q == last.arg.queue
            c == CreationOrder(q)
        IN  /\ DestroyQueueFirst(last.trace, q)
            /\ \A i \in 1..Len(c) : Occurs(last.trace, <<"free", c[i].handle>>)
            /\ \A i, j \in 1..Len(c) :
                  i < j => ReleasedAt(last.trace, c[i].handle)
                              < ReleasedAt(last.trace, c[j].handle)

\* The doorbell page of q is still reserved in svm_alt
DoorbellVaTracked(q) ==
    VaSub(q.doorbell_base, VaPages(SVM_GUARD_PAGES)) \in DOMAIN apertures["svm_alt"]

\* C9: a queue's doorbell mapping is not released before the queue is dropped,
\* and when the queue drops it is freed, the free ioctl for it coming after the
\* destroy-queue ioctl.
C9_DoorbellFreedAtQueueDrop ==
    /\ \A q \in queues :
          /\ q.doorbell_handle \in kfd.live
          /\ FreeCalls(q.doorbell_handle) = 0
          /\ DoorbellVaTracked(q)
    /\ last.op = "queue_drop" =>
          LET q == last.arg.queue
          IN  /\ Occurs(last.trace, <<"free", q.doorbell_handle>>)
              /\ Before(last.trace, <<"destroy_queue", q.queue_id>>,
                        <<"free", q.doorbell_handle>>)
              /\ q.doorbell_handle \notin kfd.live
              /\ ~DoorbellVaTracked(q)

\* The steps of one Allocation drop, in the order C10 gives them
DropSteps(a) ==
    <<<<"munmap", a.handle>>, <<"free_va", a.gpu_va>>, <<"unmap", a.handle>>,
      <<"free", a.handle>>>>

\* C10: dropping an Allocation performs, in this order and each at most once,
\* munmap if the pointer is non-null, the VA reclamation, the unmap-from-GPU
\* ioctl and the free-memory ioctl; an unmap error or EPERM on free stops no
\* later step, and with a poisoned manager lock the free is still attempted.
C10_DropSequence ==
    last.op = "drop" =>
        LET a  == last.arg.alloc
            tr == last.trace
            st == DropSteps(a)
        IN  /\ \A i \in 1..Len(tr) : \E k \in 1..4 : tr[i] = st[k]
            /\ \A k \in 1..4 : Cardinality(EvIdx(tr, st[k])) <= 1
            /\ \A k, l \in 1..4 : k < l => Before(tr, st[k], st[l])
            /\ Occurs(tr, st[1]) <=> a.ptr_mapped
            /\ Occurs(tr, st[4])
            /\ ~last.pz =>
                  /\ Occurs(tr, st[2])
                  /\ get_gpu_id(a.node_id) # 0 => Occurs(tr, st[3])
                  /\ VaSub(a.gpu_va,
                           VaPages(ApCfg(SelectAperture(a.flags, a.node_id)).guard_pages))
                        \notin DOMAIN apertures[SelectAperture(a.flags, a.node_id)]

C10_Witness_UnmapFailedFreeStillDone ==
    /\ last.op = "drop"
    /\ last.arg.fault = "unmap"
    /\ Len(last.trace) = 4
    /\ last.trace[4] = <<"free", last.arg.alloc.handle>>

----------------------------------------------------------------------------
(* The signal pool and the creation and destruction of signals *)

\* MemoryManager::allocate_gtt
allocate_gtt(s, size, node_id, fail, checks) ==
    allocate(s, size, Va(0), FlagGtt(AllocFlagsNew), node_id, fail, checks)

\* The number of slots of all blocks the pool p has allocated
RECURSIVE BlockSlots(_)
BlockSlots(blocks) ==
    IF blocks = <<>> THEN 0
    ELSE (VaInt(Head(blocks).size) \div SharedSignalSize) + BlockSlots(Tail(blocks))

\* SignalPool::alloc with next_block_signals left as it is after a block
\* was added
SignalPoolAlloc_no_doubling(p, s, node_id, fail, checks) ==
    LET Pop(q, t) ==
            [pool |-> [q EXCEPT !.free_list = SubSeq(@, 1, Len(@) - 1)],
             s |-> t, res |-> "ok", slot |-> q.free_list[Len(q.free_list)]]
        Grow(r) ==
            IF r.res # "ok"
            THEN [pool |-> p, s |-> r.s, res |-> r.res, slot |-> Va(0)]
            ELSE Pop([p EXCEPT
                        !.free_list = [i \in 1..p.next_block_signals |->
                                          VaAdd(r.alloc.gpu_va,
                                                Va((i - 1) * SharedSignalSize))],
                        !.block_list = Append(@, r.alloc)],
                     r.s)
    IN  IF p.free_list = <<>>
        THEN Bind(allocate_gtt(s, Va(p.next_block_signals * SharedSignalSize), node_id,
                               fail, checks),
                  LAMBDA r : Grow(r))
        ELSE Pop(p, s)

\* SignalPool::alloc.  fail is the kernel step made to fail should the pool
\* have to grow.  slot is the GPU VA of the slot handed out (0: none).
SignalPoolAlloc(p, s, node_id, fail, checks) ==
    LET Pop(q, t) ==
            [pool |-> [q EXCEPT !.free_list = SubSeq(@, 1, Len(@) - 1)],
             s |-> t, res |-> "ok", slot |-> q.free_list[Len(q.free_list)]]
        Grow(r) ==
            IF r.res # "ok"
            THEN [pool |-> p, s |-> r.s, res |-> r.res, slot |-> Va(0)]
            ELSE Pop([p EXCEPT
                        !.free_list = [i \in 1..p.next_block_signals |->
                                          VaAdd(r.alloc.gpu_va,
                                                Va((i - 1) * SharedSignalSize))],
                        !.block_list = Append(@, r.alloc),
                        !.next_block_signals =
                            IF @ * 2 < MAX_BLOCK_SIGNALS THEN @ * 2
                            ELSE MAX_BLOCK_SIGNALS],
                     r.s)
    IN  IF p.free_list = <<>>
        THEN Bind(allocate_gtt(s, Va(p.next_block_signals * SharedSignalSize), node_id,
                               fail, checks),
                  LAMBDA r : Grow(r))
        ELSE Pop(p, s)

\* SignalPool::free
SignalPoolFree(p, slot) == [p EXCEPT !.free_list = Append(@, slot)]

\* The id the kernel gives a new event: the lowest one not in use
NextEventId(e) == SetMin({i \in 1..(Cardinality(e.live) + 1) : i \notin e.live})

\* EventManager::create_event: the kernel grants an event id or refuses
create_event(e, fail) ==
    IF fail THEN [events |-> e, res |-> "err", event_id |-> 0]
    ELSE [events |-> [e EXCEPT !.live = @ \cup {NextEventId(e)}], res |-> "ok",
          event_id |-> NextEventId(e)]

\* Drop for HsaEvent: the event is destroyed in the kernel
EventDrop(e, event_id) == [e EXCEPT !.live = @ \ {event_id}]

\* Signal::create_internal, its first statement:
\* pool.lock().unwrap().alloc(..)?, the guard of the pool given back at the
\* end of the statement.  A panic inside alloc unwinds through the guard and
\* poisons the pool's mutex.
create_internal_alloc(p, s, node_id, mem_fail, checks) ==
    LET Slot(a) ==
            [pool |-> [a.pool EXCEPT !.poisoned = (a.res = "panic")],
             s |-> a.s, res |-> a.res, slot |-> a.slot]
    IN  Bind(SignalPoolAlloc(p, s, node_id, mem_fail, checks), LAMBDA a : Slot(a))

\* Signal::create_internal after the slot was taken: create_event(..)? and
\* the Signal built on the slot
create_internal_event(e, slot, initial_value, ev_fail) ==
    LET Built(ev) ==
            IF ev.res # "ok"
            THEN [events |-> ev.events, res |-> "err", at |-> "event",
                  signal |-> [ptr |-> Va(0)]]
            ELSE [events |-> ev.events, res |-> "ok", at |-> "done",
                  signal |-> [ptr |-> slot, gpu_base_va |-> slot,
                              event_id |-> ev.event_id, value |-> initial_value,
                              waiting |-> 0]]
    IN  Bind(create_event(e, ev_fail), LAMBDA ev : Built(ev))

\* Drop for Signal
SignalDrop(p, sig) == SignalPoolFree(p, sig.ptr)

\* AmdSignalKind
AmdSignalKind == [Invalid |-> 0, User |-> 1, Doorbell |-> -1, LegacyDoorbell |-> -2]

\* SharedSignal.id, the magic 0x71FC_CA6A_3D5D_5276: its low 32 bits are
\* 0x3D5D5276, of which a word keeps the low WordBits
SIGNAL_ID_LOW32 == 1029526134
SignalId == SIGNAL_ID_LOW32 % WordMod

\* A SharedSignal of 128 zero bytes, field by field (reserved3, reserved and
\* reserved2 are arrays, 0 when every element is 0)
ZeroedSlot ==
    [kind |-> 0, value |-> 0, event_mailbox_ptr |-> 0, event_id |-> 0, reserved1 |-> 0,
     start_ts |-> 0, end_ts |-> 0, queue_ptr |-> 0, reserved3 |-> 0,
     sdma_start_ts |-> 0, core_signal |-> 0, id |-> 0, reserved |-> 0,
     sdma_end_ts |-> 0, reserved2 |-> 0]

\* SignalPool::alloc, for i in 0..num_signals: the slots of a new block are
\* zeroed and given kind Invalid and the magic id
block_init(mem, base_gpu_va, num_signals) ==
    LET new == {VaAdd(base_gpu_va, Va(i * SharedSignalSize)) : i \in 0..(num_signals - 1)}
    IN  [va \in DOMAIN mem \cup new |->
            IF va \in new
            THEN [ZeroedSlot EXCEPT !.kind = AmdSignalKind.Invalid, !.id = SignalId]
            ELSE mem[va]]

\* The event-page slot address the event manager hands out with an event
hw_data2(event_id) == event_id * 8

\* Arc::as_ptr(&signal_arc): the address of the Signal wrapper, not null and
\* distinct for signals alive together
Arc_as_ptr(sig) == sig.event_id * 16

\* Signal::create_internal, unsafe block: the fields written into the slot
write_shared(mem, sig, kind, queue_ptr) ==
    [mem EXCEPT ![sig.ptr] =
        [@ EXCEPT !.kind = kind, !.value = sig.value, !.event_id = sig.event_id,
                  !.event_mailbox_ptr = hw_data2(sig.event_id),
                  !.queue_ptr = queue_ptr, !.core_signal = Arc_as_ptr(sig)]]

\* The slots after SignalPool::alloc took the pool from p to q: those of a
\* block the pool added are initialised
slots_after_alloc(mem, p, q) ==
    LET block == q.block_list[Len(q.block_list)]
    IN  IF Len(q.block_list) > Len(p.block_list)
        THEN block_init(mem, block.gpu_va, VaInt(block.size) \div SharedSignalSize)
        ELSE mem

\* Drop for Signal up to pool.lock(): the slot's back pointer is cleared
slot_core_cleared(mem, sig) == [mem EXCEPT ![sig.ptr] = [@ EXCEPT !.core_signal = 0]]

\* SignalPool::free: the slot's kind is set to Invalid; nothing else of it is
\* written
slot_freed(mem, sig) ==
    [mem EXCEPT ![sig.ptr] = [@ EXCEPT !.kind = AmdSignalKind.Invalid]]

Signal_value_gpu_address(sig) == VaWrap(VaAdd(sig.gpu_base_va, Va(8)))
Signal_signal_handle_gpu_va(sig) == sig.gpu_base_va

\* At most MaxSigCalls signal creations are attempted in one behaviour and at
\* most MaxSignals signals are alive at a time.
MaxSigCalls == 3
MaxSignals == 1
InitialValues == {1}
PoolAllocFails == {"none", "alloc"}

\* The mutexes a thread takes and gives back, in order, in a call of
\* Signal::new or new_doorbell: the caller's guard of the manager, from which
\* it lends &mut MemoryManager, and inside it pool.lock() for the time of
\* SignalPool::alloc
create_internal_locks ==
    <<<<"lock", "mgr">>, <<"lock", "pool">>, <<"unlock", "pool">>, <<"unlock", "mgr">>>>

\* The same in Drop for Signal: pool.lock() for the time of SignalPool::free
signal_drop_locks == <<<<"lock", "pool">>, <<"unlock", "pool">>>>

\* Signal::create_internal, called with the manager locked by the caller
\* (&mut *mgr.lock().unwrap()) for a signal of the given kind, up to the end
\* of its first statement.  With the pool's mutex poisoned pool.lock().unwrap()
\* panics, and the unwinding through the caller's guard poisons the manager's
\* mutex.  With a slot taken the thread goes on, still under the manager's
\* guard, to create the event.
SigCreateAs(kind, queue_ptr, initial_value, mem_fail) ==
    /\ ManagerFree /\ ~poisoned
    /\ IF pool.poisoned
       THEN /\ poisoned' = TRUE
            /\ sig_last' = [op |-> "create", res |-> "panic", at |-> "pool_lock",
                            kind |-> kind, queue_ptr |-> queue_ptr,
                            value |-> initial_value,
                            locks |-> SubSeq(create_internal_locks, 1, 2)]
            /\ UNCHANGED <<apertures, kfd, mgr_allocations, stuck, pool, slot_mem,
                           sig_ops>>
       ELSE \E r \in {create_internal_alloc(pool, Cur, GpuNode, mem_fail,
                                            overflow_checks)} :
            /\ Commit(r.s)
            /\ pool' = r.pool
            /\ slot_mem' = slots_after_alloc(slot_mem, pool, r.pool)
            /\ poisoned' = (r.res = "panic")
            /\ sig_ops' = IF r.res = "ok"
                          THEN [sig_ops EXCEPT !.create =
                                   [pc |-> "event", slot |-> r.slot, kind |-> kind,
                                    queue_ptr |-> queue_ptr, value |-> initial_value]]
                          ELSE sig_ops
            /\ sig_last' = [op |-> IF r.res = "ok" THEN "create_alloc" ELSE "create",
                            res |-> r.res, at |-> "pool", kind |-> kind,
                            queue_ptr |-> queue_ptr, value |-> initial_value,
                            locks |-> CASE r.res = "ok" ->
                                              SubSeq(create_internal_locks, 1, 3)
                                        [] r.res = "panic" ->
                                              SubSeq(create_internal_locks, 1, 2)
                                        [] OTHER -> create_internal_locks]
    /\ UNCHANGED <<wait_vars, sys_vars, overflow_checks, ap_vars, owned, queues, dropping,
                   ghost, last, calls, signals, events>>

\* Signal::create_internal from create_event on, the pool unlocked and the
\* manager still held: the kernel creates the event or refuses, and the
\* fields of the slot, which no other thread knows of yet, are written.  The
\* return gives the caller's guard of the manager back.
SigCreateEvent(ev_fail) ==
    /\ sig_ops.create.pc = "event"
    /\ \E r \in {create_internal_event(events, sig_ops.create.slot, sig_ops.create.value,
                                       ev_fail)} :
        /\ events' = r.events
        /\ signals' = IF r.res = "ok" THEN signals \cup {r.signal} ELSE signals
        /\ slot_mem' = IF r.res = "ok"
                       THEN write_shared(slot_mem, r.signal, sig_ops.create.kind,
                                         sig_ops.create.queue_ptr)
                       ELSE slot_mem
        /\ sig_last' = [op |-> "create", res |-> r.res, at |-> r.at,
                        kind |-> sig_ops.create.kind,
                        queue_ptr |-> sig_ops.create.queue_ptr,
                        value |-> sig_ops.create.value,
                        locks |-> create_internal_locks]
    /\ sig_ops' = [sig_ops EXCEPT !.create = [pc |-> "idle"]]
    /\ UNCHANGED <<wait_vars, sys_vars, overflow_checks, apertures, ap_vars, mem_vars,
                   pool, sig_calls>>

\* Signal::new(.., &mut *mgr.lock().unwrap(), pool.clone(), ..)
SigCreate(initial_value, mem_fail) ==
    /\ sig_calls < MaxSigCalls
    /\ Cardinality(signals) < MaxSignals
    /\ sig_calls' = sig_calls + 1
    /\ SigCreateAs(AmdSignalKind.User, 0, initial_value, mem_fail)

\* pool.lock().expect("Poisoned pool") in Drop for Signal
signal_drop_result(p) == IF p.poisoned THEN "panic" ELSE "ok"

\* drop(signal), the last reference to it: Drop for Signal clears the slot's
\* back pointer, no lock held
SigDrop(sig) ==
    /\ sig \in signals
    /\ signals' = signals \ {sig}
    /\ slot_mem' = slot_core_cleared(slot_mem, sig)
    /\ sig_ops' = [sig_ops EXCEPT !.drops =
                      @ \cup {[sig |-> sig, pc |-> "lock", res |-> "ok", locks |-> <<>>]}]
    /\ sig_last' = [op |-> "drop_clear", res |-> "ok", at |-> "core_signal", kind |-> 0,
                    queue_ptr |-> 0, value |-> 0, locks |-> <<>>]
    /\ UNCHANGED <<wait_vars, sys_vars, overflow_checks, apertures, ap_vars, mem_vars,
                   pool, events, sig_calls>>

\* Drop for Signal, pool.lock().expect(..).free(..): under the pool's guard
\* the slot goes back to the free list.  With the pool's mutex poisoned the
\* drop panics at the lock and the slot is not given back.
SigDropFree(d) ==
    /\ d \in sig_ops.drops
    /\ d.pc = "lock"
    /\ \E res \in {signal_drop_result(pool)} :
        \E locks \in {IF res = "ok" THEN signal_drop_locks
                      ELSE SubSeq(signal_drop_locks, 1, 1)} :
            /\ pool' = IF res = "ok" THEN SignalDrop(pool, d.sig) ELSE pool
            /\ slot_mem' = IF res = "ok" THEN slot_freed(slot_mem, d.sig) ELSE slot_mem
            /\ sig_ops' = [sig_ops EXCEPT !.drops =
                              (@ \ {d}) \cup {[d EXCEPT !.pc = "event", !.res = res,
                                                        !.locks = locks]}]
            /\ sig_last' = [op |-> "drop_free", res |-> res, at |-> "pool", kind |-> 0,
                            queue_ptr |-> 0, value |-> 0, locks |-> locks]
    /\ UNCHANGED <<wait_vars, sys_vars, overflow_checks, apertures, ap_vars, mem_vars,
                   signals, events, sig_calls>>

\* The fields of the Signal dropped after Drop for Signal returned, or by the
\* unwinding when it panicked: the event is destroyed in the kernel, no lock
\* held.  The drop is then complete.
SigDropEvent(d) ==
    /\ d \in sig_ops.drops
    /\ d.pc = "event"
    /\ events' = EventDrop(events, d.sig.event_id)
    /\ sig_ops' = [sig_ops EXCEPT !.drops = @ \ {d}]
    /\ sig_last' = [op |-> "drop", res |-> d.res, at |-> "done", kind |-> 0,
                    queue_ptr |-> 0, value |-> 0, locks |-> d.locks]
    /\ UNCHANGED <<wait_vars, sys_vars, overflow_checks, apertures, ap_vars, mem_vars,
                   pool, signals, sig_calls, slot_mem>>

\* The steps of the creation and of the drops under way
SigCreateEventStep == \E ev_fail \in BOOLEAN : SigCreateEvent(ev_fail)
SigDropFreeStep == \E d \in sig_ops.drops : SigDropFree(d)
SigDropEventStep == \E d \in sig_ops.drops : SigDropEvent(d)

PoolNext ==
    \/ \E initial_value \in InitialValues, mem_fail \in PoolAllocFails :
            SigCreate(initial_value, mem_fail)
    \/ SigCreateEventStep
    \/ \E sig \in signals : SigDrop(sig)
    \/ SigDropFreeStep
    \/ SigDropEventStep

PoolInit ==
    BuildInit /\ ApStart /\ ap_cur = "svm_alt" /\ MemStart /\ SigStart /\ SysStart /\ WaitStart
       /\ GroupStart

SpecPool == PoolInit /\ [][PoolNext]_vars

----------------------------------------------------------------------------------------------------------------------------------------
(* The contents of the slots: signals of every kind on fresh and on reused
   slots, with the packet processor writing the timestamps of a live signal *)

QueuePtrs == {4096}
DeviceClock == {7}

\* Signal::new_doorbell
SigCreateDoorbell(is_legacy, queue_ptr, initial_value, mem_fail) ==
    /\ sig_calls < MaxSigCalls
    /\ Cardinality(signals) < MaxSignals
    /\ sig_calls' = sig_calls + 1
    /\ SigCreateAs(IF is_legacy THEN AmdSignalKind.LegacyDoorbell
                   ELSE AmdSignalKind.Doorbell,
                   queue_ptr, initial_value, mem_fail)

\* The packet processor, to which the first 64 bytes of a slot are exposed,
\* records the start and the end of the packet the signal completes
DeviceTimestamps(sig, ts) ==
    /\ sig \in signals
    /\ slot_mem[sig.ptr].end_ts # ts
    /\ slot_mem' = [slot_mem EXCEPT ![sig.ptr] = [@ EXCEPT !.start_ts = ts, !.end_ts = ts]]
    /\ UNCHANGED <<wait_vars, sys_vars, overflow_checks, apertures, ap_vars, mem_vars,
                   pool, signals, sig_ops, events, sig_last, sig_calls>>

SlotNext ==
    \/ \E initial_value \in InitialValues, mem_fail \in PoolAllocFails :
            SigCreate(initial_value, mem_fail)
    \/ \E is_legacy \in BOOLEAN, queue_ptr \in QueuePtrs,
          initial_value \in InitialValues, mem_fail \in PoolAllocFails :
            SigCreateDoorbell(is_legacy, queue_ptr, initial_value, mem_fail)
    \/ SigCreateEventStep
    \/ \E sig \in signals : SigDrop(sig)
    \/ SigDropFreeStep
    \/ SigDropEventStep
    \/ \E sig \in signals, ts \in DeviceClock : DeviceTimestamps(sig, ts)

SpecSlot == PoolInit /\ [][SlotNext]_vars

----------------------------------------------------------------------------
(* The growth of the pool: one thread that keeps up to MaxGrowSignals
   signals alive at a time and drops a signal (and creates it again) only
   when its creation made the pool grow, no kernel failure *)

MaxGrowSignals == 2017

\* No creation and no drop of a signal is under way
SigIdle == sig_ops.create.pc = "idle" /\ sig_ops.drops = {}

GrowCreate(initial_value) ==
    /\ SigIdle
    /\ Cardinality(signals) < MaxGrowSignals
    /\ UNCHANGED sig_calls
    /\ SigCreateAs(AmdSignalKind.User, 0, initial_value, "none")

GrowDrop ==
    /\ SigIdle
    /\ pool.block_list # <<>>
    /\ Len(pool.free_list) + 1
         = VaInt(pool.block_list[Len(pool.block_list)].size) \div SharedSignalSize
    /\ \E sig \in signals :
        /\ sig.event_id = Cardinality(signals)
        /\ SigDrop(sig)

GrowNext ==
    \/ \E initial_value \in InitialValues : GrowCreate(initial_value)
    \/ SigCreateEvent(FALSE)
    \/ GrowDrop
    \/ SigDropFreeStep
    \/ SigDropEventStep

GrowInit == PoolInit /\ overflow_checks

SpecGrow == GrowInit /\ [][GrowNext]_vars

----------------------------------------------------------------------------
(* The pool dropped: the last Arc<Mutex<SignalPool>> goes away once no signal
   is left, its blocks are dropped one by one, and a new pool takes its place *)

\* One step of the thread d that drops the blocks of a pool, Allocation by
\* Allocation: the munmap, then the part under the manager's mutex, for which
\* it waits.  sig_last is the drop so far, and the whole of it at its end.
PoolDropAdvance(d, others) ==
    /\ Head(d.todo).op = "locked" => ManagerFree
    /\ \E r \in {HsaQueueDropStep(Cur, NoQueue, Head(d.todo), poisoned, d.fault)},
          locks \in {d.trace \o IF Head(d.todo).op = "locked"
                                THEN <<<<"lock", "mgr">>, <<"unlock", "mgr">>>> ELSE <<>>} :
        /\ Commit(r)
        /\ dropping' = IF Len(d.todo) = 1 THEN others
                       ELSE others \cup {[d EXCEPT !.todo = Tail(@), !.trace = locks]}
        /\ sig_last' = [op |-> IF Len(d.todo) = 1 THEN "pool_drop" ELSE "pool_dropping",
                        res |-> "ok", at |-> "done", kind |-> 0,
                        queue_ptr |-> 0, value |-> 0, locks |-> locks]
    /\ UNCHANGED <<wait_vars, sys_vars, overflow_checks, ap_vars, owned, queues,
                   poisoned, ghost, last, calls, signals, sig_ops, events, sig_calls>>

\* The last Arc<Mutex<SignalPool>> goes away: the drop of block_list begins
\* with the munmap of its first Allocation
PoolDrop ==
    /\ signals = {} /\ SigIdle
    /\ pool.block_list # <<>>
    /\ pool' = [free_list |-> <<>>, block_list |-> <<>>,
                next_block_signals |-> INITIAL_BLOCK_SIGNALS, poisoned |-> FALSE]
    /\ slot_mem' = EmptyMap
    /\ PoolDropAdvance([queue |-> NoQueue, alloc |-> NoAlloc, fault |-> "none",
                        todo |-> AllocationDropSteps(pool.block_list), trace |-> <<>>],
                       dropping)

\* The next step of the drop of a pool's blocks
PoolDropStep(d) ==
    /\ d \in dropping
    /\ PoolDropAdvance(d, dropping \ {d})
    /\ UNCHANGED <<pool, slot_mem>>

LocksNext == SlotNext \/ PoolDrop \/ \E d \in dropping : PoolDropStep(d)

\* A thread of the client panics while it holds the guard of the
\* Arc<Mutex<SignalPool>> it shares with its signals: the mutex is poisoned
PoolPoisoned ==
    /\ ~pool.poisoned
    /\ pool' = [pool EXCEPT !.poisoned = TRUE]
    /\ sig_last' = [op |-> "poison", res |-> "panic", at |-> "client", kind |-> 0,
                    queue_ptr |-> 0, value |-> 0,
                    locks |-> <<<<"lock", "pool">>>>]
    /\ UNCHANGED <<wait_vars, sys_vars, overflow_checks, apertures, ap_vars, mem_vars,
                   signals, sig_ops, events, sig_calls, slot_mem>>

DropsNext == PoolNext \/ PoolDrop \/ (\E d \in dropping : PoolDropStep(d)) \/ PoolPoisoned

SpecDrops == PoolInit /\ [][DropsNext]_vars

SpecLocks == PoolInit /\ [][LocksNext]_vars

----------------
(* Properties of the signal pool *)

\* C31: no drop of a Signal or of the SignalPool panics or fails, whatever
\* the kernel refused before and whether or not a mutex is poisoned: the drop
\* of a signal always gives its slot back to the pool's free list.
C31_NoDropPanics ==
    [][sig_last'.op \in {"drop_free", "drop", "pool_drop"} /\ sig_last' # sig_last
         => /\ sig_last'.res = "ok"
            /\ sig_last'.op = "drop_free"
                 => Len(pool'.free_list) = Len(pool.free_list) + 1]_vars

\* The slots of all blocks of the pool, by GPU VA
PoolSlots ==
    UNION {{VaAdd(pool.block_list[k].gpu_va, Va(i * SharedSignalSize)) :
                i \in 0..((VaInt(pool.block_list[k].size) \div SharedSignalSize) - 1)} :
           k \in 1..Len(pool.block_list)}

FreeCount(slot) == Cardinality({i \in 1..Len(pool.free_list) : pool.free_list[i] = slot})

\* The signals alive: those the client holds, those whose drop has not yet
\* given the slot back, and the one under construction on a slot it took
LiveSignalSlots ==
    [owner : {"client"}, slot : {sig.ptr : sig \in signals}]
        \cup [owner : {"drop"}, slot : {d.sig.ptr : d \in {x \in sig_ops.drops : x.pc = "lock"}}]
        \cup [owner : {"create"},
              slot : IF sig_ops.create.pc = "event" THEN {sig_ops.create.slot} ELSE {}]

Owners(slot) == {o \in LiveSignalSlots : o.slot = slot}

\* C37: after any creations and drops of signals every slot of the pool is
\* either on the free list exactly once or owned by exactly one live signal,
\* never both and never neither; no two live signals share a slot or a GPU
\* VA, a free slot has kind Invalid (0), and the free slots and the live
\* signals together are as many as the slots of all blocks.  A signal counts
\* as live from the moment its creation took the slot until its drop has
\* given the slot back.
C37_EverySlotFreeOnceOrOwnedOnce ==
    /\ \A slot \in PoolSlots :
          \/ FreeCount(slot) = 1 /\ Owners(slot) = {}
          \/ FreeCount(slot) = 0 /\ Cardinality(Owners(slot)) = 1
    /\ \A a, b \in signals :
          (a.ptr = b.ptr \/ a.gpu_base_va = b.gpu_base_va) => a = b
    /\ \A i \in 1..Len(pool.free_list) :
          /\ pool.free_list[i] \in PoolSlots
          /\ slot_mem[pool.free_list[i]].kind = AmdSignalKind.Invalid
    /\ Len(pool.free_list) + Cardinality(LiveSignalSlots) = BlockSlots(pool.block_list)

\* C7: a signal creation that fails loses no slot: when it fails in the pool
\* the free list is as long as it was, plus the slots of a block that was
\* added, and when it fails at the creation of the event the slot it had
\* acquired is back on the free list at its return.
C7_FailedCreateReturnsSlot ==
    [][/\ (sig_ops.create.pc = "idle" /\ sig_last'.op = "create" /\ sig_last'.res = "err")
            => Len(pool'.free_list) - Len(pool.free_list)
                 = BlockSlots(pool'.block_list) - BlockSlots(pool.block_list)
       /\ (sig_ops.create.pc = "event" /\ sig_ops'.create.pc = "idle"
                /\ sig_last'.res = "err")
            => \E i \in 1..Len(pool'.free_list) :
                  pool'.free_list[i] = sig_ops.create.slot]_vars

\* The mutexes held after the first n events of a lock trace
Held(locks, n) ==
    {m \in {"mgr", "pool"} :
        Cardinality({i \in 1..n : locks[i] = <<"lock", m>>})
            > Cardinality({i \in 1..n : locks[i] = <<"unlock", m>>})}

\* C25: in no operation on signals (creation, with or without growth of the
\* pool, drop of a signal, drop of the pool) does a thread lock the SignalPool
\* mutex while it holds the memory-manager mutex.
C25_PoolNeverLockedUnderManager ==
    \A i \in 1..Len(sig_last.locks) :
        sig_last.locks[i] = <<"lock", "pool">> => "mgr" \notin Held(sig_last.locks, i - 1)

\* 2^n
RECURSIVE Pow2(_)
Pow2(n) == IF n = 0 THEN 1 ELSE 2 * Pow2(n - 1)

\* The slot addresses of a block: base + i * 128 for i below its slot count
SlotsOfBlock(block) ==
    {VaAdd(block.gpu_va, Va(i * SharedSignalSize)) :
        i \in 0..((VaInt(block.size) \div SharedSignalSize) - 1)}

\* C22: the pool's k-th block holds min(32 * 2^(k-1), 1024) slots, the slots
\* in use and on the free list are exactly the addresses block base + i * 128
\* of its blocks, a block is added only by an allocation that found the free
\* list empty, and the list of blocks only ever grows at its end.
C22_BlocksDoubleToCapGrowOnlyWhenEmpty ==
    /\ [](/\ \A k \in 1..Len(pool.block_list) :
                VaInt(pool.block_list[k].size) \div SharedSignalSize
                    = IF 32 * Pow2(k - 1) < 1024 THEN 32 * Pow2(k - 1) ELSE 1024
          /\ {pool.free_list[j] : j \in 1..Len(pool.free_list)}
                \cup {o.slot : o \in LiveSignalSlots}
              = UNION {SlotsOfBlock(pool.block_list[k]) : k \in 1..Len(pool.block_list)})
    /\ [][/\ Len(pool'.block_list) >= Len(pool.block_list)
          /\ SubSeq(pool'.block_list, 1, Len(pool.block_list)) = pool.block_list
          /\ Len(pool'.block_list) > Len(pool.block_list) => pool.free_list = <<>>]_vars

\* The seventh block, the first the cap of 1024 makes smaller than doubling
\* would, has been allocated and a signal has been dropped since
C22_Witness_SeventhBlockCapped ==
    /\ Len(pool.block_list) = 7
    /\ sig_last.op = "drop"

\* The fields of a slot that creation does not set, all zero
RestIsZero(m) ==
    /\ m.reserved1 = 0 /\ m.start_ts = 0 /\ m.end_ts = 0 /\ m.reserved3 = 0
    /\ m.sdma_start_ts = 0 /\ m.reserved = 0 /\ m.sdma_end_ts = 0 /\ m.reserved2 = 0

\* C21: every signal just constructed, on a fresh or on a reused slot, has its
\* value address 8 bytes above its handle address, and its slot holds the magic
\* id, the kind asked for (user 1, doorbell -1, legacy doorbell -2), the initial
\* value, the id and the mailbox address of the event created for it, and zero
\* in every byte creation does not set (queue_ptr and core_signal are set).
C21_ConstructedSlot ==
    [][(sig_last'.op = "create" /\ sig_last'.res = "ok")
        => \A sig \in signals' \ signals :
             /\ VaSub(Signal_value_gpu_address(sig), Signal_signal_handle_gpu_va(sig))
                   = Va(8)
             /\ slot_mem'[sig.ptr].id = SignalId
             /\ slot_mem'[sig.ptr].kind = sig_last'.kind
             /\ sig_last'.kind \in {1, -1, -2}
             /\ slot_mem'[sig.ptr].value = sig_last'.value
             /\ sig.event_id \in events'.live \ events.live
             /\ slot_mem'[sig.ptr].event_id = sig.event_id
             /\ slot_mem'[sig.ptr].event_mailbox_ptr = hw_data2(sig.event_id)
             /\ RestIsZero(slot_mem'[sig.ptr])]_vars

\* C21 with the last conjunct left out: what the code does keep
C21_ConstructedSlotFieldsSet ==
    [][(sig_last'.op = "create" /\ sig_last'.res = "ok")
        => \A sig \in signals' \ signals :
             /\ VaSub(Signal_value_gpu_address(sig), Signal_signal_handle_gpu_va(sig))
                   = Va(8)
             /\ slot_mem'[sig.ptr].id = SignalId
             /\ slot_mem'[sig.ptr].kind = sig_last'.kind
             /\ sig_last'.kind \in {1, -1, -2}
             /\ slot_mem'[sig.ptr].value = sig_last'.value
             /\ sig.event_id \in events'.live \ events.live
             /\ slot_mem'[sig.ptr].event_id = sig.event_id
             /\ slot_mem'[sig.ptr].event_mailbox_ptr = hw_data2(sig.event_id)]_vars

----------------------------------------------------------------------------
(* The signal wait engine: one waiter and one producer on one signal.      *)
(* Relaxed and release accesses follow a view model: a load reads any      *)
(* store not older than the thread's view of the location; a store or a    *)
(* read-modify-write goes last in the history; a sequentially consistent   *)
(* fence joins the thread's view with the view of the fences before it.    *)

Conditions == {"Eq", "Ne", "Lt", "Gte"}
WaitHints == {"Blocked", "Active"}

check_condition(value, condition, compare_value) ==
    CASE condition = "Eq"  -> value = compare_value
      [] condition = "Ne"  -> value # compare_value
      [] condition = "Lt"  -> value < compare_value
      [] condition = "Gte" -> value >= compare_value

Join(v1, v2) == [l \in Locations |-> Max2(v1[l], v2[l])]

\* The stores of location l that thread t may read
Readable(m, t, l) == m.view[t][l] .. Len(m.mem[l])

\* load(Relaxed) of l by t, reading store number i
load_relaxed(m, t, l, i) == [m EXCEPT !.view[t][l] = i]

\* store(v, Release) or store(v, Relaxed) of l by t
store(m, t, l, v) ==
    [m EXCEPT !.mem[l] = Append(@, v), !.view[t][l] = Len(m.mem[l]) + 1]

\* fetch_add(d, Relaxed) and fetch_sub: read the last store and add to it
fetch_add(m, t, l, d) == store(m, t, l, m.mem[l][Len(m.mem[l])] + d)

\* std::sync::atomic::fence(Ordering::SeqCst)
fence_seqcst_without_order(m, t) == m

fence_seqcst(m, t) ==
    [m EXCEPT !.view[t] = Join(m.view[t], m.sc), !.sc = Join(m.view[t], m.sc)]

\* EventManager::set_event by a thread whose view is v: the event becomes
\* signaled; an auto-reset event that wakes a sleeper is cleared by the wake.
set_event(e, v, sleeping) ==
    [e EXCEPT !.signaled = ~(sleeping /\ e.auto_reset), !.view = Join(@, v)]

\* A wait that observes an event clears it, manual-reset or not
event_observed_clears(e) == [e EXCEPT !.signaled = FALSE]

\* The event after a wait has observed it signaled
event_observed(e) == [e EXCEPT !.signaled = ~e.auto_reset]

\* At most MaxWaits waits and MaxWrites release stores in one behaviour.
MaxWaits == 1
MaxWrites == 2
SignalValues == {0, 1}
CompareValues == {1}
Phases == <<"spin", "block", "expired">>
PhaseIdx(ph) == CHOOSE i \in 1..3 : Phases[i] = ph

\* Signal::wait_relaxed entered: wait_impl up to the increment of waiting.  It
\* asks acquire_system_properties for the timestamp frequency, which caches
\* the topology if none is cached, and takes the default when that fails.
WaitBegin(condition, compare_value, finite, hint, mwaitx) ==
    /\ waiter.pc = "idle"
    /\ waiter.waits < MaxWaits
    /\ \E t \in TopologyOutcomes : ctx' = acquire_system_properties(ctx, t)
    /\ waiter' = [waiter EXCEPT !.pc = "inc", !.condition = condition,
                                !.compare_value = compare_value, !.finite = finite,
                                !.hint = hint, !.mwaitx = mwaitx, !.phase = "spin",
                                !.waits = @ + 1, !.read_old = FALSE,
                                !.woken = FALSE]
    /\ UNCHANGED <<topo, kev, overflow_checks, apertures, ap_vars, mem_vars, sig_vars, group,
                   atomics, sig_event, producer>>

\* self.waiting.fetch_add(1, Relaxed)
WaitInc ==
    /\ waiter.pc = "inc"
    /\ atomics' = fetch_add(atomics, "waiter", "waiting", 1)
    /\ waiter' = [waiter EXCEPT !.pc = "fence"]
    /\ UNCHANGED <<sys_vars, overflow_checks, apertures, ap_vars, mem_vars, sig_vars, group,
                   sig_event, producer>>

\* fence(SeqCst) before the first load
WaitFence ==
    /\ waiter.pc = "fence"
    /\ atomics' = fence_seqcst(atomics, "waiter")
    /\ waiter' = [waiter EXCEPT !.pc = "load"]
    /\ UNCHANGED <<sys_vars, overflow_checks, apertures, ap_vars, mem_vars, sig_vars, group,
                   sig_event, producer>>

\* One pass of the loop: load the value, return if the condition holds or the
\* deadline passed, go to the event wait once the spin budget is spent, spin
\* otherwise.  phase is how far the clock has advanced when it is read.
WaitLoad(i, phase) ==
    /\ waiter.pc = "load"
    /\ i \in Readable(atomics, "waiter", "value")
    /\ PhaseIdx(phase) >= PhaseIdx(waiter.phase)
    /\ phase = "expired" => waiter.finite
    /\ atomics' = load_relaxed(atomics, "waiter", "value", i)
    /\ LET val == atomics.mem["value"][i]
           pc  == IF check_condition(val, waiter.condition, waiter.compare_value)
                  THEN "exit"
                  ELSE IF phase = "expired" THEN "exit"
                  ELSE IF waiter.hint # "Active" /\ phase = "block" THEN "wait"
                  ELSE IF waiter.mwaitx THEN "recheck"
                  ELSE "load"
       IN  waiter' = [waiter EXCEPT !.pc = pc, !.val = val, !.phase = phase,
                                    !.read_old = (i < Len(atomics.mem["value"]))]
    /\ UNCHANGED <<sys_vars, overflow_checks, apertures, ap_vars, mem_vars, sig_vars, group,
                   sig_event, producer>>

\* monitorx, the second load, mwaitx
WaitRecheck(i) ==
    /\ waiter.pc = "recheck"
    /\ i \in Readable(atomics, "waiter", "value")
    /\ atomics' = load_relaxed(atomics, "waiter", "value", i)
    /\ LET val == atomics.mem["value"][i]
       IN  waiter' = IF check_condition(val, waiter.condition, waiter.compare_value)
                     THEN [waiter EXCEPT !.pc = "exit", !.val = val]
                     ELSE [waiter EXCEPT !.pc = "load"]
    /\ UNCHANGED <<sys_vars, overflow_checks, apertures, ap_vars, mem_vars, sig_vars, group,
                   sig_event, producer>>

\* EventManager::wait_on_multiple_events entered: a signaled event returns at
\* once (an auto-reset event is cleared by it), otherwise the thread sleeps.
WaitOnEvent ==
    /\ waiter.pc = "wait"
    /\ IF sig_event.signaled
       THEN /\ waiter' = [waiter EXCEPT !.pc = "load"]
            /\ sig_event' = event_observed(sig_event)
            /\ atomics' = [atomics EXCEPT !.view["waiter"] = Join(@, sig_event.view)]
       ELSE /\ waiter' = [waiter EXCEPT !.pc = "sleep"]
            /\ UNCHANGED <<sig_event, atomics>>
    /\ UNCHANGED <<sys_vars, overflow_checks, apertures, ap_vars, mem_vars, sig_vars,
                   group, producer>>

\* The event wait times out
WaitTimeout ==
    /\ waiter.pc = "sleep"
    /\ waiter.finite
    /\ waiter' = [waiter EXCEPT !.pc = "load"]
    /\ UNCHANGED <<sys_vars, overflow_checks, apertures, ap_vars, mem_vars, sig_vars, group,
                   atomics, sig_event, producer>>

\* Drop for WaitGuard on return
WaitExit ==
    /\ waiter.pc = "exit"
    /\ atomics' = fetch_add(atomics, "waiter", "waiting", 0 - 1)
    /\ waiter' = [waiter EXCEPT !.pc = "idle"]
    /\ UNCHANGED <<sys_vars, overflow_checks, apertures, ap_vars, mem_vars, sig_vars, group,
                   sig_event, producer>>

\* Signal::store_release: the store
StoreRelease(value) ==
    /\ producer.pc = "idle"
    /\ producer.writes < MaxWrites
    /\ atomics' = store(atomics, "producer", "value", value)
    /\ producer' = [producer EXCEPT !.pc = "fence", !.value = value, !.writes = @ + 1,
                                    !.saw_waiting = FALSE, !.set_failed = FALSE]
    /\ UNCHANGED <<sys_vars, overflow_checks, apertures, ap_vars, mem_vars, sig_vars, group,
                   sig_event, waiter>>

\* Signal::notify_event: the fence
NotifyFence ==
    /\ producer.pc = "fence"
    /\ atomics' = fence_seqcst(atomics, "producer")
    /\ producer' = [producer EXCEPT !.pc = "check"]
    /\ UNCHANGED <<sys_vars, overflow_checks, apertures, ap_vars, mem_vars, sig_vars, group,
                   sig_event, waiter>>

\* Signal::notify_event: if self.waiting.load(Relaxed) > 0
NotifyCheck_never_sets(i) ==
    /\ producer.pc = "check"
    /\ i \in Readable(atomics, "producer", "waiting")
    /\ atomics' = load_relaxed(atomics, "producer", "waiting", i)
    /\ producer' = [producer EXCEPT !.pc = "idle"]
    /\ UNCHANGED <<sys_vars, overflow_checks, apertures, ap_vars, mem_vars, sig_vars, group,
                   sig_event, waiter>>

NotifyCheck(i) ==
    /\ producer.pc = "check"
    /\ i \in Readable(atomics, "producer", "waiting")
    /\ atomics' = load_relaxed(atomics, "producer", "waiting", i)
    /\ producer' = IF atomics.mem["waiting"][i] > 0
                   THEN [producer EXCEPT !.pc = "set", !.saw_waiting = TRUE]
                   ELSE [producer EXCEPT !.pc = "idle"]
    /\ UNCHANGED <<sys_vars, overflow_checks, apertures, ap_vars, mem_vars, sig_vars, group,
                   sig_event, waiter>>

\* Signal::notify_event: event_manager.set_event(device, event)?.  When the
\* call succeeds a sleeping waiter is woken and sees what the producer did
\* before the call; otherwise the event stays signaled for the next wait.
\* When it fails the error is returned by the operation, whose write stays
\* made, and the event is as it was.
NotifySetEvent(fail) ==
    /\ producer.pc = "set"
    /\ producer' = [producer EXCEPT !.pc = "idle", !.set_failed = fail]
    /\ IF fail
       THEN UNCHANGED <<sig_event, waiter, atomics>>
       ELSE /\ sig_event' = set_event(sig_event, atomics.view["producer"],
                                      waiter.pc = "sleep")
            /\ IF waiter.pc = "sleep"
               THEN /\ waiter' = [waiter EXCEPT !.pc = "load", !.woken = TRUE]
                    /\ atomics' = [atomics EXCEPT
                                     !.view["waiter"] = Join(@, atomics.view["producer"])]
               ELSE UNCHANGED <<waiter, atomics>>
    /\ UNCHANGED <<sys_vars, overflow_checks, apertures, ap_vars, mem_vars, sig_vars,
                   group>>

WaitNext ==
    \/ /\ waiter.pc = "idle"
       /\ \E condition \in Conditions, compare_value \in CompareValues,
             finite \in BOOLEAN, hint \in WaitHints, mwaitx \in BOOLEAN :
            WaitBegin(condition, compare_value, finite, hint, mwaitx)
    \/ WaitInc
    \/ WaitFence
    \/ \E i \in 1..Len(atomics.mem["value"]), phase \in {"spin", "block", "expired"} :
            WaitLoad(i, phase)
    \/ \E i \in 1..Len(atomics.mem["value"]) : WaitRecheck(i)
    \/ WaitOnEvent
    \/ WaitTimeout
    \/ WaitExit
    \/ \E value \in SignalValues : StoreRelease(value)
    \/ NotifyFence
    \/ \E i \in 1..Len(atomics.mem["waiting"]) : NotifyCheck(i)
    \/ \E fail \in BOOLEAN : NotifySetEvent(fail)

\* No arithmetic of the wait engine can overflow: one build is followed.
WaitInit ==
    /\ BuildInit /\ overflow_checks /\ ApStart /\ ap_cur = "svm" /\ MemStart /\ SigStart
    /\ WaitSysStart
    /\ GroupStart
    /\ \E initial_value \in SignalValues, auto_reset \in BOOLEAN :
          WaitStartWith(initial_value, auto_reset)

SpecWait == WaitInit /\ [][WaitNext]_vars

----------------------------------------------------------------------------
(* Properties of the signal wait engine *)

\* The producer has completed a release store of a value that satisfies the
\* waiter's condition
SatisfyingValueWritten ==
    /\ producer.pc = "idle"
    /\ producer.writes > 0
    /\ check_condition(producer.value, waiter.condition, waiter.compare_value)

\* C2: whenever a producer's release-class write of a satisfying value is
\* complete and the waiter is entering or inside the blocking event wait, the
\* producer saw waiting > 0 and issued set_event for that write; a producer
\* that saw waiting = 0 means a waiter that reads the new value and does not
\* enter the event wait.
C2_NoLostWakeup ==
    (SatisfyingValueWritten /\ waiter.pc \in {"wait", "sleep"}) => producer.saw_waiting

\* The waiter read the old value although the new one was already stored and
\* went on to the event wait; the producer saw waiting > 0 and issued
\* set_event, so the event is signaled when the waiter reaches the wait.
C2_Witness_RacedAndSetEventIssued ==
    /\ SatisfyingValueWritten
    /\ producer.saw_waiting
    /\ waiter.read_old
    /\ waiter.pc = "wait"
    /\ sig_event.signaled

----------------------------------------------------------------------------
(* Further properties of the aperture allocator and the memory manager *)

\* x is a multiple of a, a whole number of pages
VaMultiple(x, a) == a.o = 0 /\ a.p > 0 /\ x.o = 0 /\ x.p % a.p = 0

\* C11: the address a successful allocate_va(size, A) returns is a multiple of
\* max(A, align) of the aperture, whatever its guard_pages.
C11_ReturnedAddressAligned ==
    (ap_last.op = "allocate_va" /\ ap_last.kind = "some")
        => VaMultiple(ap_last.addr, VaMax2(ap_last.align, ApCfg(ap_cur).align))

\* No start address in aperture `name`, aligned and not below the base, leaves
\* room for size bytes and the guard pages below the limit and clear of the
\* ranges already occupied: the reservation cannot be satisfied.
Unsatisfiable(name, allocs, size, align) ==
    LET cfg   == ApCfg(name)
        al    == VaMax2(align, cfg.align)
        req   == VaAdd(size, VaPages(2 * cfg.guard_pages))
        Cands == {RoundedUp(cfg.base, al)}
                    \cup {RoundedUp(VaAdd(k, allocs[k]), al) : k \in DOMAIN allocs}
        Free(c) == /\ VaLe(VaSub(c, Va(1)), VaSub(cfg.limit, req))
                   /\ \A k \in DOMAIN allocs :
                         VaLe(VaAdd(c, req), k) \/ VaLe(VaAdd(k, allocs[k]), c)
    IN  \A c \in Cands : ~Free(c)

\* C12: an allocate whose VA reservation cannot be satisfied returns the
\* OutOfMemory code (-12), not -1 and not a panic, issues no kernel call and
\* leaves every aperture's occupied map as it was.
C12_UnsatisfiableReservationIsOutOfMemory ==
    [][\A size \in MemSizes, align \in MemAligns, flags \in FlagPresets,
          node_opt \in MemNodes, fail \in AllocateFails :
        LET node_id == IF node_opt # NoNode THEN node_opt
                       ELSE SetMin(DOMAIN node_to_gpu_id)
            name    == SelectAperture(flags, node_id)
        IN  (/\ name # "none"
             /\ Unsatisfiable(name, apertures[name],
                              IF size = Va(0) THEN VaPages(1) ELSE size, align)
             /\ MemAllocate(size, align, flags, node_opt, fail))
            => /\ last'.res = "err"
               /\ last'.arg.code = 0 - 12
               /\ last'.trace = <<>>
               /\ apertures' = apertures]_vars

\* Every Allocation ever handed out has been dropped and no queue was built:
\* no allocate result is still owned, no drop is under way, and no create got
\* as far as a buffer.
AllAllocationsDropped ==
    /\ owned = {}
    /\ dropping = {}
    /\ queues = {}
    /\ kfd.next_q = 1
    /\ ~stuck
    /\ last.op # "create"

\* C13: once every Allocation obtained from the apertures has been dropped,
\* each aperture's occupied map is what it was before they were made (empty).
C13_NoVaLeak ==
    AllAllocationsDropped => \A n \in ApertureNames : apertures[n] = EmptyMap

----------------------------------------------------------------------------
(* Routing of reservations to apertures, for every flag combination *)

RouteFlags ==
    {[AllocFlagsNew EXCEPT !.scratch = f[1], !.lds = f[2], !.coherent = f[3],
                           !.uncached = f[4], !.doorbell = f[5]] :
        f \in [1..5 -> BOOLEAN]}
RouteNodes == {NoNode, CpuNode, GpuNode}

\* At most MaxRouteCalls allocations are made in one behaviour.
MaxRouteCalls == 1

RouteNext ==
    \/ \E flags \in RouteFlags, node_opt \in RouteNodes :
            calls < MaxRouteCalls /\ MemAllocate(Va(0), Va(0), flags, node_opt, "none")
    \/ \E a \in owned, fault \in DropFaults : MemDrop(a, fault)
    \/ \E d \in dropping : DropStep(d)

SpecRoute == MemInit /\ [][RouteNext]_vars

\* The aperture the routing rule names for flags
RoutedTo(flags) ==
    IF flags.scratch THEN "scratch"
    ELSE IF flags.lds THEN "lds"
    ELSE IF flags.coherent \/ flags.uncached \/ flags.doorbell THEN "svm_alt"
    ELSE "svm"

\* The key under which aperture n tracks the range of allocation a
TrackedStart(n, a) == VaSub(a.gpu_va, VaPages(ApCfg(n).guard_pages))

----------------------------------------------------------------------------
(* Allocation sizes around one page *)

SmallSizes == {Va(0), Va(1), Va(PageSize - 1), Va(PageSize), Va(PageSize + 1)}

\* At most MaxSizeCalls allocations are made in one behaviour.
MaxSizeCalls == 1

SizeNext ==
    \/ \E size \in SmallSizes, flags \in FlagPresets, node_opt \in MemNodes,
          fail \in AllocateFails :
            calls < MaxSizeCalls /\ MemAllocate(size, Va(0), flags, node_opt, fail)
    \/ \E a \in owned, fault \in DropFaults : MemDrop(a, fault)
    \/ \E d \in dropping : DropStep(d)

SpecSize == MemInit /\ [][SizeNext]_vars

\* C15: whatever size is requested, the Allocation that allocate returns and
\* the range it reserved (guard pages aside) are at least one page long.
C15_SizeAtLeastOnePage ==
    \A a \in owned :
        /\ VaLe(VaPages(1), a.size)
        /\ \A n \in ApertureNames :
              TrackedStart(n, a) \in DOMAIN apertures[n]
                 => VaLe(VaPages(1 + 2 * ApCfg(n).guard_pages),
                         apertures[n][TrackedStart(n, a)])

----------------------------------------------------------------------------
(* The wait engine under fair scheduling: a thread that can take a step     *)
(* takes it, and a store becomes visible to a thread that keeps loading.    *)

\* Signal::load_acquire by the thread that called store_release, after it
\* returned; loaded.at is the number of stores made when the load was done.
LoadAcquire(i) ==
    /\ producer.pc = "idle"
    /\ producer.loaded.at # producer.writes
    /\ i \in Readable(atomics, "producer", "value")
    /\ atomics' = load_relaxed(atomics, "producer", "value", i)
    /\ producer' = [producer EXCEPT !.loaded = [at  |-> producer.writes,
                                                val |-> atomics.mem["value"][i]]]
    /\ UNCHANGED <<sys_vars, overflow_checks, apertures, ap_vars, mem_vars, sig_vars, group,
                   sig_event, waiter>>

\* wait_acquire(eq, compare_value, timeout, blocked): the steps of wait_relaxed
WaitSteps ==
    \/ WaitInc
    \/ WaitFence
    \/ \E i \in 1..Len(atomics.mem["value"]), phase \in {"spin", "block", "expired"} :
            WaitLoad(i, phase)
    \/ \E i \in 1..Len(atomics.mem["value"]) : WaitRecheck(i)
    \/ WaitOnEvent
    \/ WaitExit

NotifySteps ==
    \/ NotifyFence
    \/ \E i \in 1..Len(atomics.mem["waiting"]) : NotifyCheck(i)
    \/ \E fail \in BOOLEAN : NotifySetEvent(fail)

\* A load of the value that reads the newest store
FreshLoad ==
    \/ \E phase \in {"spin", "block", "expired"} :
            WaitLoad(Len(atomics.mem["value"]), phase)
    \/ WaitRecheck(Len(atomics.mem["value"]))

\* At most MaxLiveWrites release stores are made in a fair behaviour.
MaxLiveWrites == 1

LiveNext ==
    \/ \E compare_value \in CompareValues, finite \in BOOLEAN, mwaitx \in BOOLEAN :
            WaitBegin("Eq", compare_value, finite, "Blocked", mwaitx)
    \/ WaitSteps
    \/ WaitTimeout
    \/ \E value \in SignalValues :
            producer.writes < MaxLiveWrites /\ StoreRelease(value)
    \/ NotifySteps
    \/ \E i \in 1..Len(atomics.mem["value"]) : LoadAcquire(i)

LiveSpecWait ==
    /\ WaitInit
    /\ [][LiveNext]_vars
    /\ WF_vars(WaitSteps)
    /\ WF_vars(NotifySteps)
    /\ SF_vars(FreshLoad)

NewestValue == atomics.mem["value"][Len(atomics.mem["value"])]

\* A wait for equality with v is in progress, store_release(v) has returned
\* Ok and v is the value last stored
WaitingForStored(v) ==
    /\ waiter.pc \notin {"idle", "exit"}
    /\ waiter.condition = "Eq" /\ waiter.compare_value = v
    /\ producer.writes > 0 /\ producer.pc = "idle" /\ ~producer.set_failed
    /\ NewestValue = v

\* The wait returns with observed value v at a load made before its deadline
\* (or the value has been overwritten)
ReturnedStored(v) ==
    \/ waiter.pc = "exit" /\ waiter.val = v /\ waiter.phase # "expired"
    \/ NewestValue # v

\* The clock of the wait has reached its deadline
DeadlineOver == waiter.phase = "expired"

----------------------------------------------------------------------------
(* The wait loop against its clock: wait_impl with timeout_hint_clocks and  *)
(* the clock readings it makes.  One tick is one timestamp clock and one    *)
(* nanosecond (the default frequency); the spin budget is SpinBudget ticks. *)

\* tsc_spin_cycles and inst_spin_dur, in ticks
SpinBudget == 1
\* The clock readings followed: later readings stay at MaxElapsed.
MaxElapsed == 3
\* Duration::from_secs(31_536_000), the deadline of a wait with no timeout on
\* the Instant clock
YEAR_SECS == 31536000

\* The loads of one wait are counted up to MaxLoads.
MaxLoads == 2
CountLoad(n) == IF n < MaxLoads THEN n + 1 ELSE n

Timeouts == {0, SpinBudget, SpinBudget + 1, U64_MAX}
ClockSteps == {0, 1}
\* At most MaxTimedWrites release stores are made while the clock is followed.
MaxTimedWrites == 1

\* inst_timeout
inst_timeout(timeout_hint_clocks) ==
    IF timeout_hint_clocks = U64_MAX THEN YEAR_SECS ELSE timeout_hint_clocks

\* The deadline test of one pass on the reading elapsed
deadline_passed_inst_ge(use_tsc, timeout_hint_clocks, elapsed) ==
    IF use_tsc
    THEN timeout_hint_clocks # U64_MAX /\ elapsed >= timeout_hint_clocks
    ELSE elapsed >= inst_timeout(timeout_hint_clocks)

deadline_passed(use_tsc, timeout_hint_clocks, elapsed) ==
    IF use_tsc
    THEN timeout_hint_clocks # U64_MAX /\ elapsed >= timeout_hint_clocks
    ELSE elapsed > inst_timeout(timeout_hint_clocks)

\* Signal::wait_relaxed entered with timeout_hint_clocks: the frequency is
\* asked of acquire_system_properties, the clock is read (tsc_start,
\* inst_start) and wait_impl runs up to the increment of waiting
TimedBegin(condition, compare_value, timeout_hint_clocks, hint, mwaitx, use_tsc) ==
    /\ waiter.pc = "idle"
    /\ waiter.waits < MaxWaits
    /\ \E t \in TopologyOutcomes : ctx' = acquire_system_properties(ctx, t)
    /\ waiter' = [waiter EXCEPT !.pc = "inc", !.condition = condition,
                                !.compare_value = compare_value,
                                !.finite = (timeout_hint_clocks # U64_MAX),
                                !.hint = hint, !.mwaitx = mwaitx, !.phase = "spin",
                                !.waits = @ + 1, !.read_old = FALSE,
                                !.woken = FALSE,
                                !.timer = [use_tsc |-> use_tsc,
                                           timeout |-> timeout_hint_clocks,
                                           elapsed |-> 0, loads |-> 0, due |-> FALSE]]
    /\ UNCHANGED <<topo, kev, overflow_checks, apertures, ap_vars, mem_vars, sig_vars, group,
                   atomics, sig_event, producer>>

\* One pass of the loop with its clock reading: the clock has advanced by dt
\* since it was last read (it never goes back, and may not have advanced).
TimedLoad(i, dt) ==
    /\ waiter.pc = "load"
    /\ i \in Readable(atomics, "waiter", "value")
    /\ atomics' = load_relaxed(atomics, "waiter", "value", i)
    /\ LET val     == atomics.mem["value"][i]
           tm      == waiter.timer
           elapsed == IF tm.elapsed + dt > MaxElapsed THEN MaxElapsed
                      ELSE tm.elapsed + dt
           met     == check_condition(val, waiter.condition, waiter.compare_value)
           passed  == deadline_passed(tm.use_tsc, tm.timeout, elapsed)
           pc      == IF met THEN "exit"
                      ELSE IF passed THEN "exit"
                      ELSE IF waiter.hint # "Active" /\ elapsed >= SpinBudget THEN "wait"
                      ELSE IF waiter.mwaitx THEN "recheck"
                      ELSE "load"
       IN  waiter' = [waiter EXCEPT
                        !.pc = pc, !.val = val,
                        !.phase = IF ~met /\ passed THEN "expired"
                                  ELSE IF elapsed >= SpinBudget THEN "block"
                                  ELSE "spin",
                        !.read_old = (i < Len(atomics.mem["value"])),
                        !.timer = [tm EXCEPT
                                     !.elapsed = IF met THEN tm.elapsed ELSE elapsed,
                                     !.loads = CountLoad(@),
                                     !.due = ~met /\ tm.timeout # U64_MAX
                                             /\ elapsed >= tm.timeout]]
    /\ UNCHANGED <<sys_vars, overflow_checks, apertures, ap_vars, mem_vars, sig_vars, group,
                   sig_event, producer>>

\* monitorx, the second load, mwaitx
TimedRecheck(i) ==
    /\ waiter.pc = "recheck"
    /\ i \in Readable(atomics, "waiter", "value")
    /\ atomics' = load_relaxed(atomics, "waiter", "value", i)
    /\ LET val == atomics.mem["value"][i]
       IN  waiter' = IF check_condition(val, waiter.condition, waiter.compare_value)
                     THEN [waiter EXCEPT !.pc = "exit", !.val = val,
                                         !.timer.loads = CountLoad(@)]
                     ELSE [waiter EXCEPT !.pc = "load", !.timer.loads = CountLoad(@)]
    /\ UNCHANGED <<sys_vars, overflow_checks, apertures, ap_vars, mem_vars, sig_vars, group,
                   sig_event, producer>>

\* EventManager::wait_on_multiple_events fails: the result is dropped and the
\* loop goes on
WaitEventError ==
    /\ waiter.pc = "wait"
    /\ waiter' = [waiter EXCEPT !.pc = "load"]
    /\ UNCHANGED <<sys_vars, overflow_checks, apertures, ap_vars, mem_vars, sig_vars, group,
                   atomics, sig_event, producer>>

TimedNext ==
    \/ /\ waiter.pc = "idle"
       /\ \E condition \in Conditions, compare_value \in CompareValues,
             timeout_hint_clocks \in Timeouts, hint \in WaitHints, mwaitx \in BOOLEAN,
             use_tsc \in BOOLEAN :
            TimedBegin(condition, compare_value, timeout_hint_clocks, hint, mwaitx,
                       use_tsc)
    \/ WaitInc
    \/ WaitFence
    \/ \E i \in 1..Len(atomics.mem["value"]), dt \in ClockSteps : TimedLoad(i, dt)
    \/ \E i \in 1..Len(atomics.mem["value"]) : TimedRecheck(i)
    \/ WaitOnEvent
    \/ WaitEventError
    \/ WaitTimeout
    \/ WaitExit
    \/ \E value \in SignalValues :
            producer.writes < MaxTimedWrites /\ StoreRelease(value)
    \/ NotifyFence
    \/ \E i \in 1..Len(atomics.mem["waiting"]) : NotifyCheck(i)
    \/ \E fail \in BOOLEAN : NotifySetEvent(fail)

SpecTimed == WaitInit /\ [][TimedNext]_vars

\* The wait in progress has loaded the value at least once
HasLoaded == waiter.pc # "idle" /\ waiter.timer.loads >= 1

\* C17: wait_relaxed returns a value it loaded, and that value satisfies the
\* condition unless the deadline had been reached when it was loaded; with
\* timeout 0 it never enters the event wait, and if the condition is not
\* satisfied it returns after its first load.
C17_WaitReturnsLoadedValueTimeoutZeroOneLoad ==
    /\ waiter.pc = "exit" =>
          /\ \E i \in 1..Len(atomics.mem["value"]) : atomics.mem["value"][i] = waiter.val
          /\ \/ check_condition(waiter.val, waiter.condition, waiter.compare_value)
             \/ waiter.timer.due
    /\ (waiter.pc # "idle" /\ waiter.timer.timeout = 0) =>
          /\ waiter.pc \notin {"wait", "sleep"}
          /\ HasLoaded => waiter.pc = "exit" /\ waiter.timer.loads = 1

\* The wait is calling, or sleeping in, wait_on_multiple_events
InEventWait(w) == w.pc \in {"wait", "sleep"}

\* The deadline of the wait had been reached at its last clock reading
DeadlineReached(w) == w.timer.timeout # U64_MAX /\ w.timer.elapsed >= w.timer.timeout

\* C36: a wait with the active hint never calls wait_on_multiple_events; a
\* wait with the blocked hint enters it only when the spin budget has
\* elapsed, the value it loaded does not satisfy the condition and the
\* deadline has not been reached; and after every return from the event wait
\* the value is loaded again before the wait returns or blocks again.
C36_EventWaitOnlyBlockedAfterSpinThenReload ==
    [][/\ waiter'.hint = "Active" => ~InEventWait(waiter')
       /\ (waiter'.pc = "wait" /\ waiter.pc # "wait") =>
            /\ waiter.pc = "load"
            /\ waiter'.timer.elapsed >= SpinBudget
            /\ ~check_condition(waiter'.val, waiter'.condition, waiter'.compare_value)
            /\ ~DeadlineReached(waiter')
       /\ (InEventWait(waiter) /\ ~InEventWait(waiter')) => waiter'.pc = "load"
       /\ (waiter'.pc = "exit" /\ waiter.pc # "exit") => waiter.pc \in {"load", "recheck"}
      ]_vars

----------------------------------------------------------------------------
(* wait_any over a list of signals, beside a wait_relaxed on one of them   *)
(* and a thread storing values.  A list of one signal takes the fast path  *)
(* through wait_relaxed.                                                   *)

\* The lists of signals waited on: one signal, two signals in both orders, a
\* signal listed twice
AnyLists == {<<1>>, <<1, 2>>, <<2, 1>>, <<1, 1>>, <<1, 1, 2>>}
\* The lists followed beside a concurrent wait_relaxed
CountedLists == {<<1>>, <<1, 2>>, <<1, 1>>}
\* The lists of conditions and compare values have at most MaxListLen entries.
MaxListLen == 3
\* At most MaxGroupWrites stores are made to the signals of the list.
MaxGroupWrites == 1

AnyConditions == {"Eq", "Ne"}
AnyTimeouts == {0, SpinBudget + 1, U64_MAX}

unwaited_vars == <<topo, kev, overflow_checks, apertures, ap_vars, mem_vars, sig_vars,
                   atomics, sig_event, waiter, producer>>
other_vars == <<ctx, unwaited_vars>>

\* The guard's and the entry's loops over the list stop after its last entry.
AfterEntry(a, pc_next) ==
    IF a.i >= Len(a.signals) THEN [a EXCEPT !.pc = pc_next, !.i = 1]
    ELSE [a EXCEPT !.i = @ + 1]

\* wait_any entered.  assert_eq!(signals.len(), conditions.len()) and
\* assert_eq!(signals.len(), values.len()) panic on lists of different
\* lengths, before anything else is done.  Otherwise wait_any_impl (or
\* wait_impl for a list of one) asks acquire_system_properties for the
\* frequency and the clock is read.
AnyBegin(signal_list, conditions, values, timeout_clocks, hint, mwaitx, use_tsc) ==
    /\ group.any.pc = "idle"
    /\ IF Len(signal_list) # Len(conditions) \/ Len(signal_list) # Len(values)
       THEN /\ group' = [group EXCEPT !.any.pc = "panicked"]
            /\ ctx' = ctx
       ELSE /\ \E t \in TopologyOutcomes : ctx' = acquire_system_properties(ctx, t)
            /\ group' = [group EXCEPT !.any =
                    [pc |-> "inc", signals |-> signal_list, conditions |-> conditions,
                     values |-> values, timeout |-> timeout_clocks, hint |-> hint,
                     use_tsc |-> use_tsc, mwaitx |-> mwaitx /\ Len(signal_list) = 1,
                     elapsed |-> 0, i |-> 1, pass |-> <<>>, val |-> 0, result |-> 0,
                     due |-> FALSE]]
    /\ UNCHANGED unwaited_vars

\* for s in signals { s.waiting.fetch_add(1, Relaxed) }, one signal a step
AnyInc ==
    /\ group.any.pc = "inc"
    /\ LET a == group.any
       IN  group' = [group EXCEPT !.waiting[a.signals[a.i]] = @ + 1,
                                  !.any = AfterEntry(a, "fence")]
    /\ UNCHANGED other_vars

\* fence(SeqCst); the guard is made
AnyFence ==
    /\ group.any.pc = "fence"
    /\ group' = [group EXCEPT !.any.pc = "poll"]
    /\ UNCHANGED other_vars

\* The polling pass over the wrong condition: every signal is tested against
\* the first condition and compare value
AnyPoll_first_condition ==
    /\ group.any.pc = "poll"
    /\ LET a   == group.any
           val == group.value[a.signals[a.i]]
           a1  == [a EXCEPT !.pass = Append(@, val), !.val = val]
       IN  group' = [group EXCEPT !.any =
                        IF check_condition(val, a.conditions[1], a.values[1])
                        THEN [a1 EXCEPT !.pc = "dec", !.i = 1, !.result = a.i - 1]
                        ELSE AfterEntry(a1, "clock")]
    /\ UNCHANGED other_vars

\* The polling pass: signal i is loaded and tested; the first signal that
\* satisfies its condition ends the wait with its index
AnyPoll ==
    /\ group.any.pc = "poll"
    /\ LET a   == group.any
           val == group.value[a.signals[a.i]]
           a1  == [a EXCEPT !.pass = Append(@, val), !.val = val]
       IN  group' = [group EXCEPT !.any =
                        IF check_condition(val, a.conditions[a.i], a.values[a.i])
                        THEN [a1 EXCEPT !.pc = "dec", !.i = 1, !.result = a.i - 1]
                        ELSE AfterEntry(a1, "clock")]
    /\ UNCHANGED other_vars

\* After a pass that found nothing the clock is read: the wait ends with
\* signals.len() once the deadline passed (the fast path returns the value,
\* which wait_any turns into 1), it polls again while it spins, and it goes
\* to the event wait otherwise.
AnyClock(dt) ==
    /\ group.any.pc = "clock"
    /\ LET a       == group.any
           fast    == Len(a.signals) = 1
           elapsed == IF a.elapsed + dt > MaxElapsed THEN MaxElapsed ELSE a.elapsed + dt
           a1      == [a EXCEPT !.elapsed = elapsed, !.i = 1,
                                !.due = a.timeout # U64_MAX /\ elapsed >= a.timeout]
       IN  group' = [group EXCEPT !.any =
                        IF deadline_passed(a.use_tsc, a.timeout, elapsed)
                        THEN [a1 EXCEPT
                                !.pc = "dec",
                                !.result =
                                    IF fast
                                    THEN IF check_condition(a.val, a.conditions[1],
                                                            a.values[1])
                                         THEN 0 ELSE 1
                                    ELSE Len(a.signals)]
                        ELSE IF a.hint # "Active" /\ elapsed >= SpinBudget
                        THEN [a1 EXCEPT !.pc = "wait"]
                        ELSE IF a.mwaitx
                        THEN [a1 EXCEPT !.pc = "recheck"]
                        ELSE [a1 EXCEPT !.pc = "poll", !.pass = <<>>]]
    /\ UNCHANGED other_vars

\* The fast path with mwaitx: monitorx, the second load, mwaitx
AnyRecheck ==
    /\ group.any.pc = "recheck"
    /\ LET a   == group.any
           val == group.value[a.signals[1]]
       IN  group' = [group EXCEPT !.any =
                        IF check_condition(val, a.conditions[1], a.values[1])
                        THEN [a EXCEPT !.pc = "dec", !.result = 0, !.val = val,
                                       !.pass = <<val>>]
                        ELSE [a EXCEPT !.pc = "poll", !.pass = <<>>]]
    /\ UNCHANGED other_vars

\* wait_on_multiple_events returns (an event was set, the wait timed out or
\* failed: the result is dropped) and the next pass starts
AnyEventReturn ==
    /\ group.any.pc = "wait"
    /\ group' = [group EXCEPT !.any.pc = "poll", !.any.pass = <<>>]
    /\ UNCHANGED other_vars

\* The guard's drop that takes each signal of the list once however often
\* it is listed
AnyDec_once_per_signal ==
    /\ group.any.pc = "dec"
    /\ LET a == group.any
           s == a.signals[a.i]
       IN  group' = [group EXCEPT
                        !.waiting[s] = IF \E j \in 1..(a.i - 1) : a.signals[j] = s
                                       THEN @ ELSE @ - 1,
                        !.any = AfterEntry(a, "done")]
    /\ UNCHANGED other_vars

\* Drop for GroupWaitGuard (for WaitGuard on the fast path): fetch_sub(1) on
\* every entry of the list, one a step; then the call has returned result
AnyDec ==
    /\ group.any.pc = "dec"
    /\ LET a == group.any
       IN  group' = [group EXCEPT !.waiting[a.signals[a.i]] = @ - 1,
                                  !.any = AfterEntry(a, "done")]
    /\ UNCHANGED other_vars

\* Signal::wait_relaxed entered by the other thread on signal s
OneBegin(s, condition, compare_value, finite) ==
    /\ group.one.pc = "idle"
    /\ \E t \in TopologyOutcomes : ctx' = acquire_system_properties(ctx, t)
    /\ group' = [group EXCEPT !.one =
                    [pc |-> "inc", signal |-> s, condition |-> condition,
                     compare_value |-> compare_value, finite |-> finite]]
    /\ UNCHANGED unwaited_vars

\* self.waiting.fetch_add(1, Relaxed); the fence; the guard is made
OneInc ==
    /\ group.one.pc = "inc"
    /\ group' = [group EXCEPT !.waiting[group.one.signal] = @ + 1, !.one.pc = "load"]
    /\ UNCHANGED other_vars

\* One pass of its loop: it returns when the condition holds or the deadline
\* passed, and spins or waits on the event otherwise
OneLoad(expired) ==
    /\ group.one.pc = "load"
    /\ expired => group.one.finite
    /\ LET o   == group.one
           val == group.value[o.signal]
       IN  group' = [group EXCEPT !.one =
                        IF check_condition(val, o.condition, o.compare_value) \/ expired
                        THEN [o EXCEPT !.pc = "exit"]
                        ELSE o]
    /\ UNCHANGED other_vars

\* Drop for WaitGuard; then the call has returned
OneExit ==
    /\ group.one.pc = "exit"
    /\ group' = [group EXCEPT !.waiting[group.one.signal] = @ - 1, !.one.pc = "done"]
    /\ UNCHANGED other_vars

\* A store to the value of signal s by a third thread
GroupStore(s, value) ==
    /\ group.writes < MaxGroupWrites
    /\ group' = [group EXCEPT !.value[s] = value, !.writes = @ + 1]
    /\ UNCHANGED other_vars

\* The steps of a wait_any after its entry
AnySteps ==
    \/ AnyInc
    \/ AnyFence
    \/ AnyPoll
    \/ \E dt \in ClockSteps : AnyClock(dt)
    \/ AnyRecheck
    \/ AnyEventReturn
    \/ AnyDec

\* The lists of conditions and of compare values of 1 to MaxListLen entries
ConditionLists == UNION {[1..n -> AnyConditions] : n \in 1..MaxListLen}
ValueLists == UNION {[1..n -> CompareValues] : n \in 1..MaxListLen}

AnyNext ==
    \/ /\ group.any.pc = "idle"
       /\ \E signal_list \in AnyLists, conditions \in ConditionLists, values \in ValueLists,
             timeout_clocks \in AnyTimeouts, hint \in WaitHints, mwaitx \in BOOLEAN,
             use_tsc \in BOOLEAN :
            AnyBegin(signal_list, conditions, values, timeout_clocks, hint, mwaitx,
                     use_tsc)
    \/ AnySteps
    \/ \E s \in GSignals, value \in SignalValues : GroupStore(s, value)

GroupInit ==
    /\ BuildInit /\ overflow_checks /\ ApStart /\ ap_cur = "svm" /\ MemStart /\ SigStart
    /\ WaitSysStart
    /\ WaitStart
    /\ GroupStart

\* wait_any beside a storing thread
SpecAny == GroupInit /\ [][AnyNext]_vars

GroupNext ==
    \/ /\ group.any.pc = "idle"
       /\ \E signal_list \in CountedLists, conditions \in ConditionLists,
             values \in ValueLists, timeout_clocks \in AnyTimeouts, hint \in WaitHints,
             mwaitx \in BOOLEAN, use_tsc \in BOOLEAN :
            AnyBegin(signal_list, conditions, values, timeout_clocks, hint, mwaitx,
                     use_tsc)
    \/ AnySteps
    \/ /\ group.one.pc = "idle"
       /\ \E s \in GSignals, compare_value \in CompareValues :
            OneBegin(s, "Eq", compare_value, TRUE)
    \/ OneInc
    \/ \E expired \in BOOLEAN : OneLoad(expired)
    \/ OneExit
    \/ \E s \in GSignals, value \in SignalValues : GroupStore(s, value)

\* wait_any beside a wait_relaxed and a storing thread
SpecGroup == GroupInit /\ [][GroupNext]_vars

\* How often s is listed among the entries lo..hi of the list
Listed(s, lo, hi) ==
    Cardinality({j \in lo..hi : j \in DOMAIN group.any.signals /\ group.any.signals[j] = s})

\* The wait_any entries on s that have been counted in and not yet counted out
AnyInProgressOn(s) ==
    LET a == group.any
    IN  CASE a.pc \in {"idle", "done", "panicked"} -> 0
          [] a.pc = "inc" -> Listed(s, 1, a.i - 1)
          [] a.pc = "dec" -> Listed(s, a.i, Len(a.signals))
          [] OTHER -> Listed(s, 1, Len(a.signals))

OneInProgressOn(s) ==
    IF group.one.pc \in {"load", "exit"} /\ group.one.signal = s THEN 1 ELSE 0

\* C18: the waiting counter of every signal equals the number of waits in
\* progress on it, a signal listed k times in a wait_any counting k times;
\* it is 0 when no wait is in progress.
C18_WaitingCountsWaitsInProgress ==
    \A s \in GSignals :
        /\ group.waiting[s] = AnyInProgressOn(s) + OneInProgressOn(s)
        /\ (group.any.pc \in {"idle", "done", "panicked"}
            /\ group.one.pc \in {"idle", "done"})
                => group.waiting[s] = 0

\* A wait_any that listed signal 1 twice has returned on its deadline while
\* a wait_relaxed on the same signal is still in its loop
C18_Witness_ListedTwiceReturned ==
    /\ group.any.pc = "done" /\ group.any.signals = <<1, 1>>
    /\ group.any.result = 2
    /\ group.one.pc = "load" /\ group.one.signal = 1
    /\ group.waiting[1] = 1

\* wait_any has decided what it returns
AnyReturned == group.any.pc \in {"dec", "done"}

\* The value loaded from entry j in the last polling pass satisfies condition j
ObservedSatisfied(j) ==
    /\ j \in DOMAIN group.any.pass
    /\ check_condition(group.any.pass[j], group.any.conditions[j], group.any.values[j])

\* C20: wait_any over N signals returns i < N only if the value loaded from
\* signal i satisfied condition i and no earlier signal of that polling pass
\* did; it returns N if and only if the timeout had expired and no signal was
\* observed satisfying its condition; a list of one signal returns 0 or 1 by
\* the same rule.
C20_WaitAnyReturnsFirstSatisfiedOrLength ==
    AnyReturned =>
        LET a == group.any
            N == Len(a.signals)
        IN  /\ a.result \in 0..N
            /\ a.result < N =>
                  /\ ObservedSatisfied(a.result + 1)
                  /\ \A j \in 1..a.result : j \in DOMAIN a.pass /\ ~ObservedSatisfied(j)
            /\ a.result = N <=> (a.due /\ \A j \in 1..N : ~ObservedSatisfied(j))

\* A wait_any over three entries on the Instant clock has returned the index
\* of its last entry from a pass after the first clock reading
C20_Witness_LastEntryFoundInLaterPass ==
    /\ group.any.pc = "done" /\ Len(group.any.signals) = 3
    /\ group.any.result = 2
    /\ ~group.any.use_tsc /\ group.any.elapsed > 0

----------------------------------------------------------------------------
(* The atomic operations on the signal value and their notification *)

\* At most MaxOps operations are made on the value in one behaviour.
MaxOps == 1

OpNames == {"store", "exchange", "cas", "add", "sub", "and", "or", "xor"}
OpOrders(name) ==
    IF name = "store" THEN {"relaxed", "release"}
    ELSE {"relaxed", "acquire", "release", "acq_rel"}
OpValues == {0, 1}

\* i64 values as words and back (two's complement)
ToWord(v) == v % WordMod
ToSigned(u) == IF u >= WordMod \div 2 THEN u - WordMod ELSE u

RECURSIVE BitOp(_, _, _)
BitOp(name, x, y) ==
    IF x = 0 /\ y = 0 THEN 0
    ELSE LET a == x % 2
             b == y % 2
             bit == CASE name = "and" -> IF a = 1 /\ b = 1 THEN 1 ELSE 0
                      [] name = "or"  -> IF a = 1 \/ b = 1 THEN 1 ELSE 0
                      [] name = "xor" -> IF a # b THEN 1 ELSE 0
         IN  bit + 2 * BitOp(name, x \div 2, y \div 2)

\* The value an operation writes over old: swap, fetch_add, fetch_sub (both
\* wrapping), fetch_and, fetch_or, fetch_xor
op_result(name, old, value) ==
    CASE name \in {"store", "exchange", "cas"} -> value
      [] name = "add" -> ToSigned(ToWord(old + value))
      [] name = "sub" -> ToSigned(ToWord(old - value))
      [] OTHER -> ToSigned(BitOp(name, ToWord(old), ToWord(value)))

\* The operations that call notify_event after their write
notifies_cas_always(name, order, wrote) == order \in {"release", "acq_rel"}

notifies(name, order, wrote) ==
    /\ order \in {"release", "acq_rel"}
    /\ name = "cas" => wrote

\* One of store_relaxed .. xor_acq_rel up to its call of notify_event.  Every
\* operation but a compare-and-swap writes; a compare-and-swap that reads
\* store i writes if that is the last store and holds expected, and fails if
\* it holds another value.
OpApply(name, order, value, expected, i) ==
    /\ producer.pc = "idle"
    /\ producer.ops < MaxOps
    /\ order \in OpOrders(name)
    /\ i \in Readable(atomics, "producer", "value")
    /\ LET last_i == Len(atomics.mem["value"])
           old    == atomics.mem["value"][i]
           wrote  == name # "cas" \/ old = expected
       IN  /\ wrote => i = last_i
           /\ atomics' = IF wrote
                         THEN store(atomics, "producer", "value",
                                    op_result(name, old, value))
                         ELSE load_relaxed(atomics, "producer", "value", i)
           /\ producer' = [producer EXCEPT
                             !.pc = IF notifies(name, order, wrote) THEN "fence"
                                    ELSE "idle",
                             !.op = [name |-> name, order |-> order, wrote |-> wrote],
                             !.ops = @ + 1,
                             !.value = IF wrote THEN op_result(name, old, value) ELSE @,
                             !.writes = IF wrote THEN @ + 1 ELSE @,
                             !.saw_waiting = FALSE, !.set_failed = FALSE]
    /\ UNCHANGED <<sys_vars, overflow_checks, apertures, ap_vars, mem_vars, sig_vars, group,
                   sig_event, waiter>>

OpsNext ==
    \/ \E compare_value \in CompareValues, mwaitx \in BOOLEAN :
            WaitBegin("Eq", compare_value, FALSE, "Blocked", mwaitx)
    \/ WaitSteps
    \/ \E name \in OpNames, order \in {"relaxed", "acquire", "release", "acq_rel"},
          value \in OpValues, expected \in OpValues,
          i \in 1..Len(atomics.mem["value"]) :
            OpApply(name, order, value, expected, i)
    \/ NotifySteps

SpecOps == WaitInit /\ [][OpsNext]_vars

\* The step is an operation on the value
OpStep == producer'.ops = producer.ops + 1

\* notify_event, step by step: the fence; the check of waiting, which goes on
\* to set_event exactly if the value it loads is above 0; set_event, which
\* signals the event unless the call fails
NotifyAsDocumented ==
    /\ (producer.pc = "fence" /\ producer' # producer) =>
          /\ atomics' = fence_seqcst(atomics, "producer")
          /\ producer'.pc = "check"
    /\ (producer.pc = "check" /\ producer' # producer) =>
          \E i \in Readable(atomics, "producer", "waiting") :
             /\ atomics' = load_relaxed(atomics, "producer", "waiting", i)
             /\ producer'.pc = IF atomics.mem["waiting"][i] > 0 THEN "set" ELSE "idle"
    /\ (producer.pc = "set" /\ producer' # producer) =>
          /\ producer'.pc = "idle"
          /\ sig_event' = IF producer'.set_failed THEN sig_event
                          ELSE set_event(sig_event, atomics.view["producer"],
                                         waiter.pc = "sleep")
    /\ (sig_event'.signaled /\ ~sig_event.signaled) => producer.pc = "set"

\* C19 as stated: every release-class operation goes on to the fence and the
\* check of waiting after its write, and set_event is issued exactly if
\* waiting > 0 at the check; relaxed and acquire operations never get there.
C19_Original_EveryReleaseOpNotifies ==
    [][/\ OpStep => (producer'.pc = "fence"
                        <=> producer'.op.order \in {"release", "acq_rel"})
       /\ NotifyAsDocumented]_vars

\* C19: every release-class operation that writes the value (a compare-and-
\* swap only when it succeeds) goes on to the fence and the check of waiting
\* after its write, and set_event is issued exactly if waiting > 0 at the
\* check; a failed compare-and-swap and relaxed and acquire operations never
\* get there.
C19_ReleaseOpThatWritesNotifies ==
    [][/\ OpStep => (producer'.pc = "fence"
                        <=> /\ producer'.op.order \in {"release", "acq_rel"}
                            /\ producer'.op.wrote)
       /\ OpStep => (producer'.op.wrote <=> Len(atomics'.mem["value"])
                                             = Len(atomics.mem["value"]) + 1)
       /\ NotifyAsDocumented]_vars

\* A compare-and-swap with acq_rel order succeeded while a wait was counted
\* in, and its set_event left the event signaled
C19_Witness_CasSucceededAndSetEvent ==
    /\ producer.op = [name |-> "cas", order |-> "acq_rel", wrote |-> TRUE]
    /\ producer.pc = "idle" /\ producer.saw_waiting
    /\ sig_event.signaled

----------------------------------------------------------------------------
(* Topology acquisition: Topology::new scans the sysfs tree between two reads
   of generation_id, while the kernel may change the generation at any time *)

\* The kernel changes the generation at most MaxGeneration times.
MaxGeneration == 8

TopoStartWith(generation) ==
    [pc |-> "none", generation |-> generation, retries |-> 0, scans |-> 0,
     gen_start |-> 0, gen_end |-> 0]

\* SysfsTopology::get_generation_id().unwrap_or(0)
get_generation_id_or_0(t, fail) == IF fail THEN 0 ELSE t.generation

\* Topology::new: let mut retries = 0
TopoNew ==
    /\ topo.pc = "none"
    /\ topo' = [topo EXCEPT !.pc = "start"]
    /\ UNCHANGED <<overflow_checks, apertures, ap_vars, mem_vars, sig_vars, wait_vars,
                   ctx, kev>>

\* let gen_start = ..
TopoGenStart(fail) ==
    /\ topo.pc = "start"
    /\ topo' = [topo EXCEPT !.pc = "scan", !.gen_start = get_generation_id_or_0(topo, fail)]
    /\ UNCHANGED <<overflow_checks, apertures, ap_vars, mem_vars, sig_vars, wait_vars,
                   ctx, kev>>

\* let sys_topo = SysfsTopology::get_snapshot()?
TopoSnapshot(fail) ==
    /\ topo.pc = "scan"
    /\ topo' = IF fail THEN [topo EXCEPT !.pc = "failed"]
               ELSE [topo EXCEPT !.pc = "end", !.scans = @ + 1]
    /\ UNCHANGED <<overflow_checks, apertures, ap_vars, mem_vars, sig_vars, wait_vars,
                   ctx, kev>>

\* let gen_end = ..; if gen_start == gen_end || retries > 5 { fetch_apertures?;
\* return } retries += 1
TopoGenEnd(fail, fetch_fail) ==
    /\ topo.pc = "end"
    /\ \E gen_end \in {get_generation_id_or_0(topo, fail)} :
        topo' = IF topo.gen_start = gen_end \/ topo.retries > 5
                THEN [topo EXCEPT !.gen_end = gen_end,
                                  !.pc = IF fetch_fail THEN "failed" ELSE "done"]
                ELSE [topo EXCEPT !.gen_end = gen_end, !.pc = "start",
                                  !.retries = @ + 1]
    /\ UNCHANGED <<overflow_checks, apertures, ap_vars, mem_vars, sig_vars, wait_vars,
                   ctx, kev>>

\* A node is added or removed: the kernel advances generation_id
GenerationChange ==
    /\ topo.pc \in {"start", "scan", "end"}
    /\ topo.generation < MaxGeneration
    /\ topo' = [topo EXCEPT !.generation = @ + 1]
    /\ UNCHANGED <<overflow_checks, apertures, ap_vars, mem_vars, sig_vars, wait_vars,
                   ctx, kev>>

TopoNext ==
    \/ TopoNew
    \/ \E fail \in BOOLEAN : TopoGenStart(fail)
    \/ \E fail \in BOOLEAN : TopoSnapshot(fail)
    \/ \E fail \in BOOLEAN, fetch_fail \in BOOLEAN : TopoGenEnd(fail, fetch_fail)
    \/ GenerationChange

TopoInit ==
    /\ BuildInit /\ overflow_checks /\ ApStart /\ ap_cur = "svm" /\ MemStart /\ SigStart
    /\ WaitStart /\ GroupStart
    /\ \E generation \in {0, 1} : topo = TopoStartWith(generation)
    /\ ctx = [pc |-> "none"]
    /\ kev = [pc |-> "none"]

SpecTopo == TopoInit /\ [][TopoNext]_vars

\* C23: the scan is repeated only when the two reads of generation_id differ
\* and a snapshot is accepted at once when they are equal; there are never
\* more than 5 retries nor more than 6 scans, so that acquisition ends however
\* often the generation changes.
C23_AtMostFiveRetriesSixScans ==
    /\ [](topo.retries <= 5 /\ topo.scans <= 6)
    /\ [][(topo.pc = "end" /\ topo'.pc # "end")
            => /\ topo'.pc = "start" => topo.gen_start # topo'.gen_end
               /\ topo.gen_start = topo'.gen_end => topo'.pc \in {"done", "failed"}]_vars

\* What the code keeps: at most 6 retries and 7 scans, a retry only after two
\* reads that differ, acceptance at once after two that are equal
C23_AtMostSixRetriesSevenScans ==
    /\ [](topo.retries <= 6 /\ topo.scans <= 7)
    /\ [][(topo.pc = "end" /\ topo'.pc # "end")
            => /\ topo'.pc = "start" => topo.gen_start # topo'.gen_end
               /\ topo.gen_start = topo'.gen_end => topo'.pc \in {"done", "failed"}]_vars

----------------------------------------------------------------------------
(* The process-wide context: threads call acquire() and release() on
   GLOBAL_CONTEXT and, through them, on GLOBAL_TOPOLOGY.  opens, builds, scans,
   generation_reads, fd_opens, returned and fails are history since the last
   step of a release(). *)

\* Each thread makes at most MaxCtxCalls calls of acquire and release together.
MaxCtxCalls == 3
\* A snapshot of the topology has at most MaxCtxNodes nodes.
MaxCtxNodes == 2

\* acquire() has returned an error: the guard is dropped, and with it the
\* KfdDevice it had opened
acquire_err(c, t) ==
    [c EXCEPT !.lock = "none", !.fails = @ + 1, !.th[t].pc = "idle"]

\* acquire(): GLOBAL_CONTEXT.lock(); if let Some(ctx) = guard.as_ref() { return }
\* with the mutant that initialises the context whether or not one is cached
acquire_enter_uncached(c, t) ==
    [c EXCEPT !.lock = t, !.th[t].pc = "open", !.th[t].calls = @ + 1]

acquire_enter(c, t) ==
    IF c.context # 0
    THEN [c EXCEPT !.returned = @ \cup {c.context}, !.th[t].calls = @ + 1,
                   !.th[t].got = @ + 1]
    ELSE [c EXCEPT !.lock = t, !.th[t].pc = "open", !.th[t].calls = @ + 1]

AcqEnter(t) ==
    /\ ctx.th[t].pc = "idle" /\ ctx.th[t].calls < MaxCtxCalls
    /\ ctx.lock = "none"
    /\ ctx' = acquire_enter(ctx, t)
    /\ UNCHANGED <<overflow_checks, apertures, ap_vars, mem_vars, sig_vars, wait_vars,
                   topo, kev>>

\* let kfd_device = KfdDevice::open()?
AcqOpen(t, fail) ==
    /\ ctx.th[t].pc = "open"
    /\ ctx' = IF fail THEN acquire_err(ctx, t)
              ELSE [ctx EXCEPT !.opens = @ + 1, !.fd_opens = @ + 1, !.th[t].pc = "props"]
    /\ UNCHANGED <<overflow_checks, apertures, ap_vars, mem_vars, sig_vars, wait_vars,
                   topo, kev>>

\* The loop `for node_id in 0..num_nodes` of acquire() at node_id: the next
\* query, or the store of the context after the last node
acquire_at_node(c, t, node_id) ==
    [c EXCEPT !.th[t].node_id = node_id,
              !.th[t].pc = IF node_id < c.th[t].num_nodes THEN "node_properties"
                           ELSE "store"]

\* let system_props = acquire_system_properties()?: Topology::new, which opens
\* the device once more for the apertures, runs only if no topology is cached
\* and ends as `ended` says; the snapshot it takes has num_nodes nodes.  let num_nodes =
\* system_props.num_nodes is that of the cached topology.
AcqProps(t, ended, num_nodes) ==
    /\ ctx.th[t].pc = "props"
    /\ \E c \in {acquire_system_properties(ctx, ended)} :
         ctx' = IF c.topology = 0 THEN acquire_err(c, t)
                ELSE Bind(IF ctx.topology = 0 THEN num_nodes ELSE ctx.num_nodes, LAMBDA n :
                        acquire_at_node([c EXCEPT !.num_nodes = n, !.th[t].num_nodes = n],
                                        t, 0))
    /\ UNCHANGED <<overflow_checks, apertures, ap_vars, mem_vars, sig_vars, wait_vars,
                   topo, kev>>

\* One of the queries of a node in acquire(): it takes the guard of
\* GLOBAL_TOPOLOGY for itself, returns NotConnected (and acquire() with it)
\* if the topology has been released, finds the node otherwise (the snapshot
\* has num_nodes nodes) and lets the guard go
node_query(c, t, pc_next) ==
    IF c.topology = 0 THEN acquire_err(c, t) ELSE [c EXCEPT !.th[t].pc = pc_next]

\* let node_props = get_node_properties(node_id)?
AcqNodeProperties(t) ==
    /\ ctx.th[t].pc = "node_properties"
    /\ ctx' = node_query(ctx, t, "memory_properties")
    /\ UNCHANGED <<overflow_checks, apertures, ap_vars, mem_vars, sig_vars, wait_vars,
                   topo, kev>>

\* let mem_properties = get_node_memory_properties(node_id, num_mem_banks)?
AcqMemoryProperties(t) ==
    /\ ctx.th[t].pc = "memory_properties"
    /\ ctx' = node_query(ctx, t, "cache_properties")
    /\ UNCHANGED <<overflow_checks, apertures, ap_vars, mem_vars, sig_vars, wait_vars,
                   topo, kev>>

\* let cache_properties = get_node_cache_properties(node_id, 0, num_caches)?
AcqCacheProperties(t) ==
    /\ ctx.th[t].pc = "cache_properties"
    /\ ctx' = node_query(ctx, t, "io_link_properties")
    /\ UNCHANGED <<overflow_checks, apertures, ap_vars, mem_vars, sig_vars, wait_vars,
                   topo, kev>>

\* let io_link_properties = get_node_io_link_properties(node_id, num_links)?;
\* nodes.push(..) and the next node
AcqIoLinkProperties(t) ==
    /\ ctx.th[t].pc = "io_link_properties"
    /\ ctx' = IF ctx.topology = 0 THEN acquire_err(ctx, t)
              ELSE acquire_at_node(ctx, t, ctx.th[t].node_id + 1)
    /\ UNCHANGED <<overflow_checks, apertures, ap_vars, mem_vars, sig_vars, wait_vars,
                   topo, kev>>

\* *guard = Some(context.clone()); drop(guard); Ok(context)
AcqStore(t) ==
    /\ ctx.th[t].pc = "store"
    /\ ctx' = [ctx EXCEPT !.context = ctx.next_id, !.next_id = @ + 1,
                          !.returned = @ \cup {ctx.next_id}, !.lock = "none",
                          !.th[t].pc = "idle", !.th[t].got = @ + 1]
    /\ UNCHANGED <<overflow_checks, apertures, ap_vars, mem_vars, sig_vars, wait_vars,
                   topo, kev>>

\* release(): GLOBAL_CONTEXT.lock().unwrap().take()
RelContext(t) ==
    /\ ctx.th[t].pc = "idle" /\ ctx.th[t].calls < MaxCtxCalls
    /\ ctx.lock = "none"
    /\ ctx' = [ctx EXCEPT !.context = 0, !.opens = 0, !.builds = 0, !.scans = 0,
                          !.generation_reads = 0, !.fd_opens = 0,
                          !.returned = {}, !.fails = 0,
                          !.th[t].pc = "release", !.th[t].calls = @ + 1]
    /\ UNCHANGED <<overflow_checks, apertures, ap_vars, mem_vars, sig_vars, wait_vars,
                   topo, kev>>

\* release(): release_system_properties()
RelTopology(t) ==
    /\ ctx.th[t].pc = "release"
    /\ ctx' = [ctx EXCEPT !.topology = 0, !.num_nodes = 0, !.opens = 0, !.builds = 0,
                          !.scans = 0, !.generation_reads = 0, !.fd_opens = 0,
                          !.returned = {}, !.fails = 0, !.th[t].pc = "idle"]
    /\ UNCHANGED <<overflow_checks, apertures, ap_vars, mem_vars, sig_vars, wait_vars,
                   topo, kev>>

CtxNext ==
    \E t \in CtxThreads :
        \/ AcqEnter(t)
        \/ \E fail \in BOOLEAN : AcqOpen(t, fail)
        \/ /\ ctx.th[t].pc = "props"
           /\ \E ended \in TopologyOutcomes, num_nodes \in 0..MaxCtxNodes :
                    AcqProps(t, ended, num_nodes)
        \/ AcqNodeProperties(t)
        \/ AcqMemoryProperties(t)
        \/ AcqCacheProperties(t)
        \/ AcqIoLinkProperties(t)
        \/ AcqStore(t)
        \/ RelContext(t)
        \/ RelTopology(t)

CtxInit ==
    /\ BuildInit /\ overflow_checks /\ ApStart /\ ap_cur = "svm" /\ MemStart /\ SigStart
    /\ WaitStart /\ GroupStart
    /\ topo = [pc |-> "none"]
    /\ ctx = CtxStart
    /\ kev = [pc |-> "none"]

SpecCtx == CtxInit /\ [][CtxNext]_vars

\* The step is one of release() made with no context and no topology cached
ReleaseOfNothing(t) ==
    /\ ctx.th[t].pc # ctx'.th[t].pc /\ "release" \in {ctx.th[t].pc, ctx'.th[t].pc}
    /\ ctx.context = 0 /\ ctx.topology = 0

\* C24 as stated: the acquire() calls since the last release() have opened the
\* device once and scanned the topology once between them, and all that
\* returned a context returned the same one; a release() that finds nothing
\* acquired changes neither global and returns.
C24_Original_OneOpenOneScan ==
    /\ [](/\ Cardinality(ctx.returned) <= 1
          /\ ctx.fd_opens <= 1 /\ ctx.scans <= 1)
    /\ [][\A t \in CtxThreads :
            ReleaseOfNothing(t)
                => /\ ctx'.context = 0 /\ ctx'.topology = 0 /\ ctx'.lock = ctx.lock
                   /\ ctx'.th[t].pc \in {"release", "idle"}]_vars

\* C24: among the acquire() calls since the last release(), sequential or
\* concurrent, all that return a context return the same one, and the
\* initialization is made again only by a call that follows one that failed:
\* acquire() has opened the device at most once more than calls have failed,
\* Topology::new has run at most once more than calls have failed, each run
\* takes at most TopologyRetryLimit + 2 snapshots (one for each pass of its
\* generation check) and opens /dev/kfd at most once more, for the aperture
\* query; a call made while a context is cached opens and scans nothing and
\* leaves the context in place.  A release() that finds nothing acquired
\* changes neither global and returns.
C24_AcquireIdempotentReleaseOfNothing ==
    /\ [](/\ Cardinality(ctx.returned) <= 1
          /\ ctx.opens <= ctx.fails + 1
          /\ ctx.builds <= ctx.fails + 1
          /\ ctx.scans <= (TopologyRetryLimit + 2) * ctx.builds
          /\ ctx.fd_opens <= ctx.opens + ctx.builds)
    /\ [][/\ (ctx.context # 0 /\ ctx'.context # 0)
                => /\ ctx'.fd_opens <= ctx.fd_opens /\ ctx'.scans <= ctx.scans
                   /\ ctx'.builds <= ctx.builds /\ ctx'.context = ctx.context
          /\ (ctx.topology # 0 /\ ctx'.topology # 0)
                => /\ ctx'.scans <= ctx.scans /\ ctx'.builds <= ctx.builds
          /\ \A t \in CtxThreads :
                ReleaseOfNothing(t)
                => /\ ctx'.context = 0 /\ ctx'.topology = 0 /\ ctx'.lock = ctx.lock
                   /\ ctx'.th[t].pc \in {"release", "idle"}]_vars

\* Both threads have been given the context, one of them twice, and no call
\* failed; the device was opened once by acquire() and once more for the
\* aperture query, and the topology was acquired once, in two passes
C24_Witness_BothThreadsSameContext ==
    /\ ctx.th["t1"].got = 2 /\ ctx.th["t2"].got = 1 /\ ctx.fails = 0
    /\ ctx.opens = 1 /\ ctx.fd_opens = 2 /\ ctx.builds = 1 /\ ctx.scans = 2
    /\ ctx.num_nodes = 2
    /\ ctx.returned = {1}

\* C39: under every interleaving of acquire() and release() by several
\* threads, whenever GLOBAL_CONTEXT holds a context GLOBAL_TOPOLOGY holds a
\* snapshot: a release racing with an acquire leaves no live context whose
\* topology has been released.
C39_ContextImpliesTopology == ctx.context # 0 => ctx.topology # 0

----------------------------------------------------------------------------
(* The memory banks of a node: the count get_node_properties reports and the
   entries get_node_memory_properties produces for that count, as
   context::acquire asks for them *)

HSA_HEAPTYPE_FRAME_BUFFER_PUBLIC == 1
HSA_HEAPTYPE_FRAME_BUFFER_PRIVATE == 2
HSA_HEAPTYPE_GPU_LDS == 4
HSA_HEAPTYPE_GPU_SCRATCH == 5
HSA_HEAPTYPE_DEVICE_SVM == 6
HSA_HEAPTYPE_MMIO_REMAP == 7
GFX_VERSION_VEGA10 == 90000
GFX_VERSION_KAVERI == 70000

\* A node has at most MaxSysfsBanks memory banks in sysfs.
MaxSysfsBanks == 2
GfxVersions == {GFX_VERSION_KAVERI, 80003, GFX_VERSION_VEGA10}
\* An aperture as the kernel reports it: absent (base = limit = 0) or present
ApertureRanges == {[base |-> 0, limit |-> 0], [base |-> 4096, limit |-> 8191]}

\* Topology::is_svm_needed
is_svm_needed(is_dgpu, ver) == is_dgpu \/ ver >= GFX_VERSION_VEGA10

\* get_node_properties: props.mem_banks_count
get_node_properties_mem_banks_count(node) ==
    IF node.kfd_gpu_id # 0 THEN node.mem_banks_count + 3 + 1 ELSE node.mem_banks_count

\* get_node_memory_properties: the heap types of the banks produced
get_node_memory_properties(node, is_dgpu, num_banks) ==
    LET Push(props, cond, heap_type) ==
            IF Len(props) < num_banks /\ cond THEN Append(props, heap_type) ELSE props
        p1 == [i \in 1..(IF node.mem_banks_count < num_banks THEN node.mem_banks_count
                         ELSE num_banks) |-> HSA_HEAPTYPE_FRAME_BUFFER_PUBLIC]
        p2 == Push(p1, node.ap.lds.limit > node.ap.lds.base, HSA_HEAPTYPE_GPU_LDS)
        p3 == Push(p2, node.ver = GFX_VERSION_KAVERI /\ node.local_mem_size > 0,
                   HSA_HEAPTYPE_FRAME_BUFFER_PRIVATE)
        p4 == Push(p3, node.ap.scratch.limit > node.ap.scratch.base,
                   HSA_HEAPTYPE_GPU_SCRATCH)
        p5 == Push(p4, is_svm_needed(is_dgpu, node.ver)
                        /\ node.ap.gpuvm.limit > node.ap.gpuvm.base,
                   HSA_HEAPTYPE_DEVICE_SVM)
        p6 == Push(p5, TRUE, HSA_HEAPTYPE_MMIO_REMAP)
    IN  IF node.kfd_gpu_id = 0 \/ ~node.has_apertures THEN p1 ELSE p6

\* The topology is built at most MaxBuilds times while one node is queried.
MaxBuilds == 2

\* What a scan of sysfs may find of the node queried: a CPU (gpu id 0, no
\* apertures) or a GPU, for which the aperture query may have returned a
\* record or none
BankTopologies ==
    {s \in [is_dgpu : BOOLEAN,
            node : [kfd_gpu_id : {0, 1}, mem_banks_count : 0..MaxSysfsBanks,
                    ver : GfxVersions, local_mem_size : {0, 4096},
                    has_apertures : BOOLEAN,
                    ap : [lds : ApertureRanges, scratch : ApertureRanges,
                          gpuvm : ApertureRanges]]] :
        /\ s.node.kfd_gpu_id = 0 => ~s.node.has_apertures
        /\ ~s.node.has_apertures
             => /\ s.node.ap.lds.limit = 0 /\ s.node.ap.scratch.limit = 0
                /\ s.node.ap.gpuvm.limit = 0}

BanksUnchanged ==
    UNCHANGED <<overflow_checks, apertures, ap_vars, mem_vars, sig_vars, wait_vars, ctx, kev>>

\* context::acquire, for one node: get_node_properties(node_id) locks
\* GLOBAL_TOPOLOGY, fails with NotConnected when no topology is cached and
\* with InvalidInput when the cached topology has no such node, and otherwise
\* returns the node's properties; the guard is dropped on return.  The getter
\* is public: it may be called again before the banks are asked for
BanksNodeProperties ==
    /\ topo.pc \in {"node", "count"}
    /\ topo' = IF ~topo.cached THEN [topo EXCEPT !.pc = "not_connected"]
               ELSE IF ~topo.present THEN [topo EXCEPT !.pc = "invalid_input"]
               ELSE [topo EXCEPT
                       !.pc = "count",
                       !.count = get_node_properties_mem_banks_count(topo.node),
                       !.counted = [kfd_gpu_id |-> topo.node.kfd_gpu_id,
                                    mem_banks_count |-> topo.node.mem_banks_count]]
    /\ BanksUnchanged

\* context::acquire, for the same node id:
\* get_node_memory_properties(node_id, node_props.mem_banks_count), under a
\* lock of GLOBAL_TOPOLOGY of its own, on the topology cached by then
BanksMemoryProperties ==
    /\ topo.pc = "count"
    /\ topo' = IF ~topo.cached THEN [topo EXCEPT !.pc = "not_connected"]
               ELSE IF ~topo.present THEN [topo EXCEPT !.pc = "invalid_input"]
               ELSE [topo EXCEPT
                       !.pc = "banks",
                       !.banks = get_node_memory_properties(topo.node, topo.is_dgpu,
                                                            topo.count)]
    /\ BanksUnchanged

\* release_system_properties by another thread while the queries are under
\* way: GLOBAL_TOPOLOGY = None
BanksRelease ==
    /\ topo.pc \in {"node", "count"} /\ topo.cached
    /\ topo' = [topo EXCEPT !.cached = FALSE]
    /\ BanksUnchanged

\* acquire_system_properties by another thread: Topology::new scans sysfs as
\* it is by then and the result is cached.  scanned: what the scan finds of
\* the node queried; present: the scan finds a node of that id at all
BanksReacquire(scanned, present) ==
    /\ topo.pc \in {"node", "count"} /\ ~topo.cached
    /\ topo.builds < MaxBuilds
    /\ ~present => scanned = [is_dgpu |-> topo.is_dgpu, node |-> topo.node]
    /\ topo' = [topo EXCEPT !.cached = TRUE, !.builds = @ + 1, !.present = present,
                            !.is_dgpu = scanned.is_dgpu, !.node = scanned.node]
    /\ BanksUnchanged

BanksNext ==
    \/ BanksNodeProperties
    \/ BanksMemoryProperties
    \/ BanksRelease
    \/ \E scanned \in BankTopologies, present \in BOOLEAN : BanksReacquire(scanned, present)

\* The topology has been scanned and cached, and holds the node queried
BanksInit ==
    /\ BuildInit /\ overflow_checks /\ ApStart /\ ap_cur = "svm" /\ MemStart /\ SigStart
    /\ WaitStart /\ GroupStart
    /\ \E scanned \in BankTopologies :
            topo = [pc |-> "node", cached |-> TRUE, builds |-> 1, present |-> TRUE,
                    is_dgpu |-> scanned.is_dgpu, node |-> scanned.node,
                    count |-> 0, counted |-> [kfd_gpu_id |-> 0, mem_banks_count |-> 0],
                    banks |-> <<>>]
    /\ ctx = [pc |-> "none"]
    /\ kev = [pc |-> "none"]

SpecBanks == BanksInit /\ [][BanksNext]_vars

HasBank(heap_type) == \E i \in 1..Len(topo.banks) : topo.banks[i] = heap_type
Count(cond) == IF cond THEN 1 ELSE 0

\* C26: for a GPU node, the bank count reported equals the sysfs bank count
\* + 1 if an LDS bank is present + 1 if a Scratch bank is present + 1 if SVM
\* is needed + 1 for MMIO, and equals the number of bank entries produced.
C26_BankCountMatchesEntries ==
    (topo.pc = "banks" /\ topo.builds = 1 /\ topo.node.kfd_gpu_id # 0)
        => /\ topo.count = topo.node.mem_banks_count
                            + Count(HasBank(HSA_HEAPTYPE_GPU_LDS))
                            + Count(HasBank(HSA_HEAPTYPE_GPU_SCRATCH))
                            + Count(is_svm_needed(topo.is_dgpu, topo.node.ver))
                            + 1
           /\ topo.count = Len(topo.banks)

\* What the code keeps: the count is the sysfs count that get_node_properties
\* read, + 4 for a GPU node, and the entries produced are at most that many,
\* the sysfs banks that get_node_memory_properties read first
C26_CountIsSysfsPlusFour ==
    topo.pc = "banks"
        => /\ topo.count = topo.counted.mem_banks_count
                            + (IF topo.counted.kfd_gpu_id # 0 THEN 4 ELSE 0)
           /\ Len(topo.banks) <= topo.count
           /\ \A i \in 1..Len(topo.banks) :
                i <= topo.node.mem_banks_count
                    => topo.banks[i] = HSA_HEAPTYPE_FRAME_BUFFER_PUBLIC

----------------------------------------------------------------------------
(* Indirect io-links: calculate_indirect_link on a scanned topology of two
   CPU nodes (0, 1) and two GPU nodes (2, 3) *)

HSA_IOLINKTYPE_UNDEFINED == 0
HSA_IOLINKTYPE_PCIEXPRESS == 2
HSA_IOLINKTYPE_XGMI == 3
HSA_IOLINKTYPE_QPI_1_1 == 5

LinkWeights == {0, 15, 21}
LinkTypes == {HSA_IOLINKTYPE_PCIEXPRESS, HSA_IOLINKTYPE_QPI_1_1}
NoLink == [node_to |-> 0 - 1, weight |-> 0, type_ |-> HSA_IOLINKTYPE_UNDEFINED]

\* io_links.iter().find(pred): the first link that satisfies pred, or NoLink
find_link(links, pred(_)) ==
    LET hits == {i \in 1..Len(links) : pred(links[i])}
    IN  IF hits = {} THEN NoLink ELSE links[SetMin(hits)]

\* calculate_indirect_link: get_direct_cpu, the index of the CPU node a node
\* is directly linked to (its own for a CPU), -1 for None
get_direct_cpu(nodes, idx) ==
    IF nodes[idx].simd_count = 0 THEN idx
    ELSE find_link(nodes[idx].io_links,
                   LAMBDA l : /\ l.weight <= 20
                              /\ l.type_ \in {HSA_IOLINKTYPE_PCIEXPRESS,
                                              HSA_IOLINKTYPE_XGMI}
                              /\ l.node_to \in DOMAIN nodes
                              /\ nodes[l.node_to].simd_count = 0).node_to

\* as it would be without the test of the CPU-to-CPU hop
qpi_hop_rejected_never(l_cpu) == FALSE

\* if l_cpu.type_ == HSA_IOLINKTYPE_QPI_1_1 && weight2 > 20 { return None; }
qpi_hop_rejected(l_cpu) == l_cpu.type_ = HSA_IOLINKTYPE_QPI_1_1 /\ l_cpu.weight > 20

NoneLink == [some |-> FALSE, weight |-> 0, type_ |-> HSA_IOLINKTYPE_UNDEFINED,
             node_from |-> 0, node_to |-> 0]

\* SysfsTopology::calculate_indirect_link
calculate_indirect_link(nodes, src_idx, dst_idx) ==
    LET src_is_gpu == nodes[src_idx].simd_count > 0
        dst_is_gpu == nodes[dst_idx].simd_count > 0
        cpu_src == get_direct_cpu(nodes, src_idx)
        cpu_dst == get_direct_cpu(nodes, dst_idx)
        to(from, n) == find_link(nodes[from].io_links, LAMBDA l : l.node_to = n)
        l1 == IF src_is_gpu THEN to(src_idx, cpu_src) ELSE NoLink
        same == cpu_src = cpu_dst
        l2 == IF same THEN (IF dst_is_gpu THEN to(cpu_src, dst_idx) ELSE NoLink)
              ELSE to(cpu_src, cpu_dst)
        l3 == IF ~same /\ dst_is_gpu THEN to(cpu_dst, dst_idx) ELSE NoLink
        link_type == IF same /\ dst_is_gpu
                     THEN (IF src_is_gpu THEN HSA_IOLINKTYPE_PCIEXPRESS ELSE l2.type_)
                     ELSE HSA_IOLINKTYPE_UNDEFINED
        total_weight == l1.weight + l2.weight + l3.weight
    IN  IF ~src_is_gpu /\ ~dst_is_gpu THEN NoneLink
        ELSE IF src_is_gpu /\ ~dst_is_gpu THEN NoneLink
        ELSE IF cpu_src < 0 \/ cpu_dst < 0 THEN NoneLink
        ELSE IF src_is_gpu /\ l1 = NoLink THEN NoneLink
        ELSE IF same /\ dst_is_gpu /\ l2 = NoLink THEN NoneLink
        ELSE IF ~same /\ l2 = NoLink THEN NoneLink
        ELSE IF ~same /\ qpi_hop_rejected(l2) THEN NoneLink
        ELSE IF ~same /\ dst_is_gpu /\ l3 = NoLink THEN NoneLink
        ELSE IF total_weight = 0 THEN NoneLink
        ELSE [some |-> TRUE, weight |-> total_weight, type_ |-> link_type,
              node_from |-> src_idx, node_to |-> dst_idx]

\* The links a node may have to node n: none, or one of any weight and type
LinksTo(n) ==
    {<<>>} \cup {<<[node_to |-> n, weight |-> w, type_ |-> t]>> :
                    w \in LinkWeights, t \in LinkTypes}

\* get_snapshot: if let Some(link) = Self::calculate_indirect_link(&nodes, i, j)
LinkQuery(src_idx, dst_idx) ==
    /\ topo.pc = "nodes"
    /\ src_idx # dst_idx
    /\ topo' = [topo EXCEPT !.pc = "link", !.src_idx = src_idx, !.dst_idx = dst_idx,
                            !.link = calculate_indirect_link(topo.nodes, src_idx,
                                                             dst_idx)]
    /\ UNCHANGED <<overflow_checks, apertures, ap_vars, mem_vars, sig_vars, wait_vars,
                   ctx, kev>>

LinkNext == \E src_idx \in 0..3, dst_idx \in 0..3 : LinkQuery(src_idx, dst_idx)

\* The scanned nodes: each GPU has at most one link, to one of the CPUs; the
\* CPUs have at most one link to each other, the same both ways; either CPU
\* has at most one link down to GPU 3 (the same for both) and CPU 1 at most
\* one down to GPU 2
LinkInit ==
    /\ BuildInit /\ overflow_checks /\ ApStart /\ ap_cur = "svm" /\ MemStart /\ SigStart
    /\ WaitStart /\ GroupStart
    /\ \E up2 \in LinksTo(0) \cup LinksTo(1), up3 \in LinksTo(0) \cup LinksTo(1),
          cc \in LinksTo(1), down3 \in LinksTo(3), down2 \in LinksTo(2) :
            topo = [pc |-> "nodes", src_idx |-> 0, dst_idx |-> 0, link |-> NoneLink,
                    nodes |-> [i \in 0..3 |->
                        CASE i = 0 -> [simd_count |-> 0, io_links |-> cc \o down3]
                          [] i = 1 -> [simd_count |-> 0,
                                       io_links |-> [k \in 1..Len(cc) |->
                                                        [cc[k] EXCEPT !.node_to = 0]]
                                                    \o down3 \o down2]
                          [] i = 2 -> [simd_count |-> 4, io_links |-> up2]
                          [] i = 3 -> [simd_count |-> 4, io_links |-> up3]]]
    /\ ctx = [pc |-> "none"]
    /\ kev = [pc |-> "none"]

SpecLink == LinkInit /\ [][LinkNext]_vars

\* The weight of the direct link from a to b (0 from a node to itself)
DirectWeight(a, b) ==
    IF a = b THEN 0
    ELSE find_link(topo.nodes[a].io_links, LAMBDA l : l.node_to = b).weight

\* C27: a synthesized link's weight is the sum of the weights of the direct
\* links it is made of: source to CPU and CPU to destination when both ends
\* attach to the same CPU, source to its CPU, that CPU to the destination's
\* CPU and that CPU to the destination when they differ; and no link is
\* synthesized over a CPU-to-CPU hop that is a QPI link of weight above 20.
C27_IndirectWeightIsSumNoQpiAbove20 ==
    topo.pc = "link"
        => LET cpu_src == get_direct_cpu(topo.nodes, topo.src_idx)
               cpu_dst == get_direct_cpu(topo.nodes, topo.dst_idx)
           IN  /\ topo.link.some
                    => topo.link.weight
                         = IF cpu_src = cpu_dst
                           THEN DirectWeight(topo.src_idx, cpu_src)
                                  + DirectWeight(cpu_src, topo.dst_idx)
                           ELSE DirectWeight(topo.src_idx, cpu_src)
                                  + DirectWeight(cpu_src, cpu_dst)
                                  + DirectWeight(cpu_dst, topo.dst_idx)
               /\ (/\ cpu_src >= 0 /\ cpu_dst >= 0 /\ cpu_src # cpu_dst
                   /\ \E k \in 1..Len(topo.nodes[cpu_src].io_links) :
                        /\ topo.nodes[cpu_src].io_links[k].node_to = cpu_dst
                        /\ topo.nodes[cpu_src].io_links[k].type_ = HSA_IOLINKTYPE_QPI_1_1
                        /\ topo.nodes[cpu_src].io_links[k].weight > 20)
                    => ~topo.link.some

\* A link from GPU 2 to GPU 3 over both CPUs has been synthesized, with a
\* weight above 20 on the hop between the CPUs
C27_Witness_ThreeHopLink ==
    /\ topo.pc = "link" /\ topo.link.some
    /\ topo.src_idx = 2 /\ topo.dst_idx = 3
    /\ get_direct_cpu(topo.nodes, 2) = 0 /\ get_direct_cpu(topo.nodes, 3) = 1
    /\ DirectWeight(0, 1) > 20
    /\ topo.link.weight = 15 + 21 + 15

IsGpu(i) == topo.nodes[i].simd_count > 0

\* C35: an indirect link is synthesized only for an ordered pair of two GPU
\* nodes: no synthesized link has a CPU node as its source or as its
\* destination
C35_OnlyGpuPairsAreLinked ==
    (topo.pc = "link" /\ topo.link.some)
        => IsGpu(topo.link.node_from) /\ IsGpu(topo.link.node_to)

-----------------------------------------------------------------------------
(* Enrichment of a GPU node's properties: the engine version *)

\* Three entries of GFXIP_LOOKUP_TABLE: Spectre, Vega10 and Sienna Cichlid
GFXIP_LOOKUP_TABLE ==
    << [device_id |-> 4868, major |-> 7, minor |-> 0, stepping |-> 0],
       [device_id |-> 26751, major |-> 9, minor |-> 0, stepping |-> 0],
       [device_id |-> 29631, major |-> 10, minor |-> 3, stepping |-> 0] >>

\* The device ids of Vega10 and Sienna Cichlid, and 0x9999, which
\* GFXIP_LOOKUP_TABLE has no entry for
DeviceIds == {26751, 29631, 39321}

\* gfx_target_version as sysfs gives it: 9.0.0, 10.3.0, 11.0.1 and 15.0.1
GfxTargetVersions == {90000, 100300, 110001, 150001}

EnrichNodes == {0, 1}

\* Strings are sequences of characters
Digits == <<"0", "1", "2", "3", "4", "5", "6", "7", "8", "9">>

\* The values the override variables are given: 11.0.0, 265.0.1, 10.3, 9.x.0
\* and 9..0
OverrideValues ==
    { <<"1", "1", ".", "0", ".", "0">>,
      <<"2", "6", "5", ".", "0", ".", "1">>,
      <<"1", "0", ".", "3">>,
      <<"9", ".", "x", ".", "0">>,
      <<"9", ".", ".", "0">> }

Unset == <<"unset">>

\* The names of the environment variables
GlobalVar == <<"HSA_OVERRIDE_GFX_VERSION">>
NodeVar(node_id) == <<"HSA_OVERRIDE_GFX_VERSION", node_id>>

\* env::var(name): Ok(value) or Err
env_var(env, name) ==
    IF env[name] = Unset THEN [ok |-> FALSE, val |-> <<>>]
    ELSE [ok |-> TRUE, val |-> env[name]]

\* str::split('.'): the parts between the dots, empty parts included
RECURSIVE split_dot(_)
split_dot(s) ==
    IF \A i \in 1..Len(s) : s[i] # "."
    THEN <<s>>
    ELSE LET d == SetMin({i \in 1..Len(s) : s[i] = "."})
         IN  <<SubSeq(s, 1, d - 1)>> \o split_dot(SubSeq(s, d + 1, Len(s)))

DigitValue(c) == (CHOOSE i \in 1..10 : Digits[i] = c) - 1

\* str::parse::<u32>: decimal digits only (an optional leading plus sign),
\* at least one digit
RECURSIVE digits_value(_)
digits_value(s) ==
    IF s = <<>> THEN 0
    ELSE digits_value(SubSeq(s, 1, Len(s) - 1)) * 10 + DigitValue(s[Len(s)])

parse_u32(s) ==
    LET body == IF s # <<>> /\ s[1] = "+" THEN Tail(s) ELSE s
    IN  IF body # <<>> /\ \A i \in 1..Len(body) : \E d \in 1..10 : Digits[d] = body[i]
        THEN [ok |-> TRUE, n |-> digits_value(body)]
        ELSE [ok |-> FALSE, n |-> 0]

\* (v / 10000) % 100, (v / 100) % 100, v % 100
decode_gfx_target_version(v) ==
    [major |-> (v \div 10000) % 100, minor |-> (v \div 100) % 100, stepping |-> v % 100]

\* The global variable consulted before the per-node one
override_val_global_first(env, node_id) ==
    LET g == env_var(env, GlobalVar)
    IN  IF g.ok THEN g ELSE env_var(env, NodeVar(node_id))

\* The value of the per-node variable if it is set, else that of the global one
override_val(env, node_id) ==
    LET n == env_var(env, NodeVar(node_id))
    IN  IF n.ok THEN n ELSE env_var(env, GlobalVar)

\* The override is taken when the value has three parts that all parse
apply_override(decoded, ov) ==
    IF ~ov.ok THEN decoded
    ELSE LET parts == split_dot(ov.val)
         IN  IF Len(parts) # 3 THEN decoded
             ELSE LET maj == parse_u32(parts[1])
                      min == parse_u32(parts[2])
                      stp == parse_u32(parts[3])
                  IN  IF maj.ok /\ min.ok /\ stp.ok
                      THEN [major |-> maj.n, minor |-> min.n, stepping |-> stp.n]
                      ELSE decoded

\* major as u8
as_u8(n) == n % 256

NoEntry == [some |-> FALSE]

find_gfx_ip(device_id, major_version) ==
    IF major_version > 14 THEN NoEntry
    ELSE LET hits == {i \in 1..Len(GFXIP_LOOKUP_TABLE) :
                        GFXIP_LOOKUP_TABLE[i].device_id = device_id}
         IN  IF hits = {} THEN NoEntry
             ELSE [some |-> TRUE, entry |-> GFXIP_LOOKUP_TABLE[SetMin(hits)]]

\* The engine_id that enrich_gpu_properties leaves in props
enrich_gpu_properties(props, env) ==
    IF props.simd_count = 0 THEN props.engine_id
    ELSE LET version == apply_override(decode_gfx_target_version(props.gfx_target_version),
                                       override_val(env, props.node_id))
             found == find_gfx_ip(props.device_id, as_u8(version.major))
         IN  IF found.some
             THEN [major |-> found.entry.major, minor |-> found.entry.minor,
                   stepping |-> found.entry.stepping]
             ELSE version

\* EngineId::default()
DefaultEngineId == [major |-> 0, minor |-> 0, stepping |-> 0]

Enrich ==
    /\ topo.pc = "props"
    /\ topo' = [topo EXCEPT !.pc = "enriched",
                            !.props.engine_id = enrich_gpu_properties(topo.props, topo.env)]
    /\ UNCHANGED <<overflow_checks, apertures, ap_vars, mem_vars, sig_vars, wait_vars,
                   ctx, kev>>

EnrichNext == Enrich

\* A node read from sysfs, GPU or CPU, and a process environment
EnrichInit ==
    /\ BuildInit /\ overflow_checks /\ ApStart /\ ap_cur = "svm" /\ MemStart /\ SigStart
    /\ WaitStart /\ GroupStart
    /\ \E node_id \in EnrichNodes, simd_count \in {0, 4}, v \in GfxTargetVersions,
          device_id \in DeviceIds,
          own \in OverrideValues \cup {Unset}, other \in {Unset, <<"9", ".", "0", ".", "6">>},
          global \in OverrideValues \cup {Unset} :
            topo = [pc |-> "props",
                    props |-> [node_id |-> node_id, simd_count |-> simd_count,
                               gfx_target_version |-> v, device_id |-> device_id,
                               engine_id |-> DefaultEngineId],
                    env |-> (NodeVar(node_id) :> own) @@ (NodeVar(1 - node_id) :> other)
                              @@ (GlobalVar :> global)]
    /\ ctx = [pc |-> "none"]
    /\ kev = [pc |-> "none"]

SpecEnrich == EnrichInit /\ [][EnrichNext]_vars

\* The triple a well-formed value M.m.s names
TripleOf(val) ==
    LET parts == split_dot(val)
    IN  [major |-> parse_u32(parts[1]).n, minor |-> parse_u32(parts[2]).n,
         stepping |-> parse_u32(parts[3]).n]

WellFormed(val) ==
    LET parts == split_dot(val)
    IN  Len(parts) = 3 /\ \A i \in 1..3 : parse_u32(parts[i]).ok

\* The version the environment and gfx_target_version choose for the node
ChosenVersion ==
    LET own == topo.env[NodeVar(topo.props.node_id)]
        global == topo.env[GlobalVar]
        taken == IF own # Unset THEN own ELSE global
    IN  IF taken # Unset /\ WellFormed(taken) THEN TripleOf(taken)
        ELSE decode_gfx_target_version(topo.props.gfx_target_version)

HasTableEntry(device_id) ==
    \E i \in 1..Len(GFXIP_LOOKUP_TABLE) : GFXIP_LOOKUP_TABLE[i].device_id = device_id

\* C28 as stated: after enrichment a GPU node's engine version is the
\* per-node override if that variable is set, else the global override if
\* that one is set, else the triple decoded from gfx_target_version.
C28_EngineVersionIsOverrideOrDecoded ==
    (topo.pc = "enriched" /\ topo.props.simd_count # 0)
        => LET own == topo.env[NodeVar(topo.props.node_id)]
               global == topo.env[GlobalVar]
           IN  IF own # Unset
               THEN WellFormed(own) /\ topo.props.engine_id = TripleOf(own)
               ELSE IF global # Unset
               THEN WellFormed(global) /\ topo.props.engine_id = TripleOf(global)
               ELSE topo.props.engine_id
                      = decode_gfx_target_version(topo.props.gfx_target_version)

\* C28, amended: after enrichment a GPU node's engine version is the triple
\* of the device table's entry for the node's device id when there is one and
\* the chosen major version, as a byte, is at most 14; otherwise it is the
\* chosen version: the override taken from the per-node variable if that is
\* set, else from the global one, when its value has the form M.m.s, and the
\* triple decoded from gfx_target_version when no variable is set or the
\* value taken is malformed.
C28_EngineVersionIsTableElseOverrideElseDecoded ==
    (topo.pc = "enriched" /\ topo.props.simd_count # 0)
        => IF HasTableEntry(topo.props.device_id) /\ ChosenVersion.major % 256 <= 14
           THEN \E i \in 1..Len(GFXIP_LOOKUP_TABLE) :
                  /\ GFXIP_LOOKUP_TABLE[i].device_id = topo.props.device_id
                  /\ topo.props.engine_id
                       = [major |-> GFXIP_LOOKUP_TABLE[i].major,
                          minor |-> GFXIP_LOOKUP_TABLE[i].minor,
                          stepping |-> GFXIP_LOOKUP_TABLE[i].stepping]
           ELSE topo.props.engine_id = ChosenVersion

\* A GPU node without a table entry has been enriched with both variables
\* set to different well-formed values, and carries the per-node version
C28_Witness_PerNodeOverrideWins ==
    /\ topo.pc = "enriched" /\ topo.props.simd_count # 0
    /\ ~HasTableEntry(topo.props.device_id)
    /\ topo.env[NodeVar(topo.props.node_id)] = <<"1", "1", ".", "0", ".", "0">>
    /\ topo.env[GlobalVar] = <<"2", "6", "5", ".", "0", ".", "1">>
    /\ topo.props.engine_id = [major |-> 11, minor |-> 0, stepping |-> 0]

-----------------------------------------------------------------------------
(* Kernel events: set, reset and wait *)

KFD_IOC_WAIT_RESULT_COMPLETE == 0
KFD_IOC_WAIT_RESULT_TIMEOUT == 1
KFD_IOC_WAIT_RESULT_FAIL == 2

\* wait_on_multiple_events reports a wait that timed out as Err(-31)
ETIME == 31

\* At most MaxKernelEvents events are created and MaxEventWaits waits made
MaxKernelEvents == 2
MaxEventWaits == 3

\* timeout_ms of a wait
EventTimeouts == {0, 500}

\* The event lists a wait is called with: one or two distinct live events
EventLists(live) ==
    {<<a>> : a \in live} \cup {<<p[1], p[2]>> : p \in {q \in live \X live : q[1] < q[2]}}

IdsOf(ids) == {ids[i] : i \in 1..Len(ids)}

NoReturn ==
    [some |-> FALSE, ok |-> FALSE, err |-> "none", code |-> 0, indices |-> {},
     ids |-> <<>>, wait_all |-> FALSE, timeout_ms |-> 0, wait_result |-> -1,
     slept |-> FALSE, seen |-> {}, pending_seen |-> FALSE]

\* EventManager::new: no event exists and no wait has been made
EventsStart ==
    [pc |-> "idle", live |-> {}, ev |-> <<>>, pending |-> <<>>, ids |-> <<>>,
     wait_all |-> FALSE, timeout_ms |-> 0, activated |-> {}, seen |-> {},
     pending_seen |-> FALSE, waits |-> 0, oks |-> 0, ret |-> NoReturn]

\* The kernel's test of a wait: every awaited event has been seen signaled
\* (wait_all) or at least one has
wait_condition(ids, wait_all, activated) ==
    IF wait_all THEN IdsOf(ids) \subseteq activated
    ELSE IdsOf(ids) \cap activated # {}

\* The kernel's events after a wait on ids has looked at them
events_observed(ev, ids) ==
    [id \in DOMAIN ev |->
        IF id \in IdsOf(ids) /\ ev[id].signaled THEN event_observed(ev[id]) ELSE ev[id]]

\* What wait_on_multiple_events returns for the kernel's wait_result: every
\* unsuccessful wait is reported as a timeout
wait_return_all_etime(wait_result, ids, activated) ==
    IF wait_result = KFD_IOC_WAIT_RESULT_COMPLETE
    THEN [ok |-> TRUE, err |-> "none", code |-> 0,
          indices |-> {i - 1 : i \in {k \in 1..Len(ids) : ids[k] \in activated}}]
    ELSE [ok |-> FALSE, err |-> "WaitTimeout", code |-> -ETIME, indices |-> {}]

\* What wait_on_multiple_events returns for the kernel's wait_result: the
\* indices of the events seen signaled, Err(-ETIME), or a driver error
wait_return(wait_result, ids, activated) ==
    IF wait_result = KFD_IOC_WAIT_RESULT_COMPLETE
    THEN [ok |-> TRUE, err |-> "none", code |-> 0,
          indices |-> {i - 1 : i \in {k \in 1..Len(ids) : ids[k] \in activated}}]
    ELSE IF wait_result = KFD_IOC_WAIT_RESULT_TIMEOUT
    THEN [ok |-> FALSE, err |-> "WaitTimeout", code |-> -ETIME, indices |-> {}]
    ELSE [ok |-> FALSE, err |-> "Driver", code |-> -1, indices |-> {}]

\* The wait of k returns with wait_result
Returned(k, wait_result, slept) ==
    LET r == wait_return(wait_result, k.ids, k.activated)
    IN  [k EXCEPT !.pc = "idle", !.ids = <<>>, !.wait_all = FALSE, !.timeout_ms = 0,
                  !.activated = {}, !.seen = {}, !.pending_seen = FALSE,
                  !.oks = IF r.ok THEN @ + 1 ELSE @,
                  !.ret = [some |-> TRUE, ok |-> r.ok, err |-> r.err, code |-> r.code,
                           indices |-> r.indices, ids |-> k.ids,
                           wait_all |-> k.wait_all, timeout_ms |-> k.timeout_ms,
                           wait_result |-> wait_result, slept |-> slept,
                           seen |-> k.seen, pending_seen |-> k.pending_seen]]

\* An auto-reset event that a wait has seen signaled has no set pending
pending_after_seen(k, seen) ==
    [id \in DOMAIN k.pending |->
        IF id \in seen /\ k.ev[id].auto_reset THEN FALSE ELSE k.pending[id]]

\* EventManager::create_event(.., manual_reset, is_signaled)
EvCreate(auto_reset, is_signaled) ==
    /\ kev.pc = "idle"
    /\ Cardinality(kev.live) < MaxKernelEvents
    /\ \E r \in {create_event([live |-> kev.live], FALSE)} :
         kev' = [kev EXCEPT
                   !.live = r.events.live,
                   !.ev = @ @@ (r.event_id :>
                            [signaled |-> is_signaled, auto_reset |-> auto_reset,
                             view |-> [l \in Locations |-> 1]]),
                   !.pending = @ @@ (r.event_id :> is_signaled)]
    /\ UNCHANGED <<overflow_checks, apertures, ap_vars, mem_vars, sig_vars, wait_vars,
                   topo, ctx>>

\* EventManager::set_event, from any thread: a thread sleeping on the event
\* sees it signaled and returns once its wait condition holds
EvSet(id) ==
    /\ id \in kev.live
    /\ \E awaited \in {kev.pc = "sleep" /\ id \in IdsOf(kev.ids)} :
        \E k1 \in {[kev EXCEPT
                      !.ev[id] = set_event(@, [l \in Locations |-> 1], awaited),
                      !.pending[id] = TRUE]} :
         \E k2 \in {[k1 EXCEPT !.activated = @ \cup {id}, !.seen = @ \cup {id},
                               !.pending_seen = TRUE]} :
           kev' = IF ~awaited THEN k1
                  ELSE IF wait_condition(k2.ids, k2.wait_all, k2.activated)
                  THEN Returned([k2 EXCEPT !.pending = pending_after_seen(k2, {id})],
                                KFD_IOC_WAIT_RESULT_COMPLETE, TRUE)
                  ELSE [k2 EXCEPT !.pending = pending_after_seen(k2, {id})]
    /\ UNCHANGED <<overflow_checks, apertures, ap_vars, mem_vars, sig_vars, wait_vars,
                   topo, ctx>>

\* EventManager::reset_event, from any thread
EvReset(id) ==
    /\ id \in kev.live
    /\ kev' = [kev EXCEPT !.ev[id].signaled = FALSE, !.pending[id] = FALSE]
    /\ UNCHANGED <<overflow_checks, apertures, ap_vars, mem_vars, sig_vars, wait_vars,
                   topo, ctx>>

\* EventManager::wait_on_multiple_events(events, wait_all, timeout_ms): the
\* kernel looks at the awaited events; the call returns at once if its
\* condition holds, if timeout_ms is 0 or if the kernel fails the wait, and
\* sleeps otherwise
EvWait(ids, wait_all, timeout_ms, kernel_fail) ==
    /\ kev.pc = "idle"
    /\ kev.waits < MaxEventWaits
    /\ \E signaled \in {{id \in IdsOf(ids) : kev.ev[id].signaled}},
          k1 \in {[kev EXCEPT !.ids = ids, !.wait_all = wait_all,
                              !.timeout_ms = timeout_ms, !.waits = @ + 1,
                              !.pending_seen = kev.pending[ids[1]]]} :
         \E k2 \in {[k1 EXCEPT !.ev = events_observed(kev.ev, ids),
                               !.activated = signaled, !.seen = signaled,
                               !.pending = pending_after_seen(kev, signaled)]} :
           kev' = IF kernel_fail
                  THEN Returned(k1, KFD_IOC_WAIT_RESULT_FAIL, FALSE)
                  ELSE IF wait_condition(ids, wait_all, signaled)
                  THEN Returned(k2, KFD_IOC_WAIT_RESULT_COMPLETE, FALSE)
                  ELSE IF timeout_ms = 0
                  THEN Returned(k2, KFD_IOC_WAIT_RESULT_TIMEOUT, FALSE)
                  ELSE [k2 EXCEPT !.pc = "sleep"]
    /\ UNCHANGED <<overflow_checks, apertures, ap_vars, mem_vars, sig_vars, wait_vars,
                   topo, ctx>>

\* timeout_ms have passed with the wait condition unmet
EvTimeout ==
    /\ kev.pc = "sleep"
    /\ kev' = Returned(kev, KFD_IOC_WAIT_RESULT_TIMEOUT, TRUE)
    /\ UNCHANGED <<overflow_checks, apertures, ap_vars, mem_vars, sig_vars, wait_vars,
                   topo, ctx>>

EventsNext ==
    \/ \E auto_reset \in BOOLEAN, is_signaled \in BOOLEAN :
         EvCreate(auto_reset, is_signaled)
    \/ \E id \in kev.live : EvSet(id)
    \/ \E id \in kev.live : EvReset(id)
    \/ \E ids \in EventLists(kev.live), timeout_ms \in EventTimeouts,
          kernel_fail \in BOOLEAN :
         \E wait_all \in IF Len(ids) = 1 THEN {FALSE} ELSE BOOLEAN :
           EvWait(ids, wait_all, timeout_ms, kernel_fail)
    \/ EvTimeout

EventsInit ==
    /\ BuildInit /\ overflow_checks /\ ApStart /\ ap_cur = "svm" /\ MemStart /\ SigStart
    /\ WaitStart /\ GroupStart
    /\ topo = [pc |-> "none"]
    /\ ctx = [pc |-> "none"]
    /\ kev = EventsStart

SpecEvents == EventsInit /\ [][EventsNext]_vars

\* C29: a wait returns -ETIME exactly if the kernel wait ended with
\* wait-timeout, which happens only with no awaited event seen signaled (any)
\* or some awaited event not seen signaled (all); on wait-complete it returns
\* success with the indices of the events seen signaled; and a wait with
\* timeout 0 on one event that is signaled returns success with the index
\* set {0} without sleeping.
C29_EtimeIffWaitTimeout ==
    kev.ret.some
        => /\ (~kev.ret.ok /\ kev.ret.code = -ETIME)
                <=> kev.ret.wait_result = KFD_IOC_WAIT_RESULT_TIMEOUT
           /\ kev.ret.wait_result = KFD_IOC_WAIT_RESULT_TIMEOUT
                => ~wait_condition(kev.ret.ids, kev.ret.wait_all, kev.ret.seen)
           /\ kev.ret.wait_result = KFD_IOC_WAIT_RESULT_COMPLETE
                => /\ kev.ret.ok
                   /\ kev.ret.indices
                        = {i \in 0..(Len(kev.ret.ids) - 1) : kev.ret.ids[i + 1] \in kev.ret.seen}
                   /\ kev.ret.indices # {}
           /\ (/\ kev.ret.timeout_ms = 0 /\ Len(kev.ret.ids) = 1
               /\ kev.ret.pending_seen
               /\ kev.ret.wait_result # KFD_IOC_WAIT_RESULT_FAIL)
                => kev.ret.ok /\ kev.ret.indices = {0} /\ ~kev.ret.slept

\* A wait with timeout 0 on one signaled event has returned success with
\* index set {0}, after two waits that did not succeed
C29_Witness_ImmediateSuccess ==
    /\ kev.ret.some /\ kev.ret.ok /\ kev.ret.indices = {0}
    /\ kev.ret.timeout_ms = 0 /\ Len(kev.ret.ids) = 1 /\ ~kev.ret.slept
    /\ kev.waits = 3 /\ kev.oks = 1

\* C30: a wait on one event returns success exactly if a set of the event is
\* pending, and -ETIME otherwise: a set of a manual-reset event stays pending
\* until reset_event, whatever waits are made; a set of an auto-reset event
\* stays pending until reset_event or the first wait that sees it.
C30_ManualPersistsAutoClears ==
    (/\ kev.ret.some /\ Len(kev.ret.ids) = 1
     /\ kev.ret.wait_result # KFD_IOC_WAIT_RESULT_FAIL)
        => /\ kev.ret.ok <=> kev.ret.pending_seen
           /\ ~kev.ret.ok => kev.ret.code = -ETIME
           /\ \A id \in kev.live : kev.pc = "idle" => (kev.ev[id].signaled <=> kev.pending[id])

\* A manual-reset event was set, two waits on it succeeded, it was reset and
\* the third wait timed out
C30_Witness_ManualThenReset ==
    /\ kev.ret.some /\ ~kev.ret.ok /\ kev.ret.code = -ETIME
    /\ kev.waits = 3 /\ kev.oks = 2
    /\ kev.live = {1} /\ ~kev.ev[1].auto_reset /\ kev.ret.ids = <<1>>

\* An auto-reset event was set, the first wait on it succeeded and the second
\* one timed out
C30_Witness_AutoSecondWaitTimesOut ==
    /\ kev.ret.some /\ ~kev.ret.ok /\ kev.ret.code = -ETIME
    /\ kev.waits = 2 /\ kev.oks = 1
    /\ kev.live = {1} /\ kev.ev[1].auto_reset /\ kev.ret.ids = <<1>>

-----------------------------------------------------------------------------
(* Context save/restore (CWSR) sizing and header, thunk/queues/cwsr.rs *)

HWREG_SIZE_PER_CU == 4096
DEBUGGER_BYTES_PER_WAVE == 32
DEBUGGER_BYTES_ALIGN == 64

\* mem::size_of::<HsaUserContextSaveAreaHeader>(): the struct is repr(C) with
\* six u32 fields, the u64 error_reason and the u32 fields error_event_id and
\* reserved1
HeaderBytes == 40

NoSizes == [none |-> TRUE]

\* u32::min
min_u32(a, b) == IF a <= b THEN a ELSE b

\* cwsr::align_up, align a power of two
cwsr_align_up(val, align) == AndNot(val + align - 1, align - 1)

get_vgpr_size_per_cu(gfx_version) ==
    LET major == (gfx_version \div 10000) % 100
        minor == (gfx_version \div 100) % 100
        step  == gfx_version % 100
        is_large_vgpr_gfx9 ==
            major = 9 /\ ((minor = 0 /\ step = 8) \/ minor = 4 \/ (minor = 5 /\ step = 0))
    IN  IF is_large_vgpr_gfx9 THEN 524288
        ELSE IF major >= 11 THEN 393216
        ELSE 262144

cntl_stack_bytes_per_wave(gfx_version) ==
    IF (gfx_version \div 10000) % 100 >= 10 THEN 12 ELSE 8

\* cwsr::calculate_sizes.  min(.., u32::MAX) is written as its first argument.
calculate_sizes(props) ==
    IF props.gfx_target_version < 80000 \/ props.simd_count = 0 \/ props.simd_per_cu = 0
    THEN NoSizes
    ELSE
    LET gfx_version == props.gfx_target_version
        num_xcc  == IF props.num_xcc > 0 THEN props.num_xcc ELSE 1
        cu_num   == (props.simd_count \div props.simd_per_cu) \div num_xcc
        wave_num == IF gfx_version < 100100
                    THEN (IF props.simd_arrays_per_engine > 0
                          THEN min_u32(cu_num * 40,
                                       (props.num_shader_banks \div props.simd_arrays_per_engine) * 512)
                          ELSE cu_num * 40)
                    ELSE cu_num * 32
        ctl_stack_bytes == wave_num * cntl_stack_bytes_per_wave(gfx_version) + 8
        aligned  == cwsr_align_up(HeaderBytes + ctl_stack_bytes, 4096)
        ctl_stack_size == IF gfx_version = 100100 THEN min_u32(aligned, 28672) ELSE aligned
        wg_data_size_per_cu == get_vgpr_size_per_cu(gfx_version) + props.sgpr_size_per_cu
                               + props.lds_size_in_kb * 1024 + HWREG_SIZE_PER_CU
        wg_data_size == cu_num * wg_data_size_per_cu
        debug_memory_size == cwsr_align_up(wave_num * DEBUGGER_BYTES_PER_WAVE,
                                           DEBUGGER_BYTES_ALIGN)
        ctx_save_restore_size == ctl_stack_size + cwsr_align_up(wg_data_size, 4096)
    IN  [ctl_stack_size |-> ctl_stack_size, wg_data_size |-> wg_data_size,
         debug_memory_size |-> debug_memory_size,
         ctx_save_restore_size |-> ctx_save_restore_size,
         total_mem_alloc_size |-> (ctx_save_restore_size + debug_memory_size) * num_xcc]

\* cwsr::init_header: the headers written, by XCC index, each at address
\* ptr + i * ctx_save_restore_size; write_unaligned stores the whole struct,
\* bytes_written bytes of it
init_header(ptr, sizes, num_xcc0) ==
    LET num_xcc == IF num_xcc0 = 0 THEN 1 ELSE num_xcc0
    IN  [i \in 0..(num_xcc - 1) |->
            [addr |-> VaAdd(ptr, Va(i * sizes.ctx_save_restore_size)),
             bytes_written |-> HeaderBytes,
             control_stack_offset |-> 0, control_stack_size |-> 0,
             wave_state_offset |-> 0, wave_state_size |-> 0,
             debug_offset |-> (num_xcc - i) * sizes.ctx_save_restore_size,
             debug_size |-> sizes.debug_memory_size * num_xcc,
             error_reason |-> 0, error_event_id |-> 0, reserved1 |-> 0]]

\* Allocation.ptr: the mmap of step 6 of MemoryManager::allocate is MAP_FIXED
\* at the reserved VA; without it the pointer stays null
AllocPtr(a) == IF a.ptr_mapped THEN a.gpu_va ELSE Va(0)

\* QueueBuilder::alloc_cwsr on a compute queue: calculate_sizes, the
\* allocation, init_header through Allocation.ptr
CwsrAlloc(fault) ==
    /\ topo.pc = "cwsr"
    /\ \E sizes \in {calculate_sizes(topo.props)} :
       \E r \in {alloc_cwsr(Cur, [gfx_target_version |-> topo.props.gfx_target_version,
                                  cwsr_total |-> IF sizes = NoSizes THEN 0
                                                 ELSE sizes.total_mem_alloc_size],
                            TRUE, fault, overflow_checks)} :
        /\ Commit(r.s)
        /\ topo' = [topo EXCEPT
                      !.pc = "cwsr_done", !.sizes = sizes, !.alloc = r.alloc,
                      !.res = r.res,
                      !.headers = IF r.res = "ok" /\ r.alloc # NoAlloc
                                  THEN init_header(AllocPtr(r.alloc), sizes,
                                                   topo.props.num_xcc)
                                  ELSE <<>>]
        /\ UNCHANGED <<overflow_checks, ap_vars, owned, queues, dropping, poisoned, ghost, last,
                       calls, sig_vars, wait_vars, ctx, kev>>

CwsrNext == \E fault \in {"none", "cwsr"} : CwsrAlloc(fault)

CwsrVersions == {70000, 90000, 90008, 100100, 100300, 110000}

\* The properties of one node as the topology snapshot reports them
CwsrInit ==
    /\ BuildInit /\ ApStart /\ ap_cur = "svm" /\ MemStart /\ SigStart
    /\ WaitStart /\ GroupStart
    /\ \E v \in CwsrVersions, simd_count \in {0, 4, 8, 320}, num_xcc \in {0, 1, 2},
          simd_arrays_per_engine \in {0, 2} :
            topo = [pc |-> "cwsr",
                    props |-> [gfx_target_version |-> v, simd_count |-> simd_count,
                               simd_per_cu |-> 4, num_xcc |-> num_xcc,
                               simd_arrays_per_engine |-> simd_arrays_per_engine,
                               num_shader_banks |-> 2, sgpr_size_per_cu |-> 16384,
                               lds_size_in_kb |-> 64],
                    sizes |-> NoSizes, alloc |-> NoAlloc, res |-> "none",
                    headers |-> <<>>]
    /\ ctx = [pc |-> "none"]
    /\ kev = [pc |-> "none"]

SpecCwsr == CwsrInit /\ [][CwsrNext]_vars

CwsrDone == topo.pc = "cwsr_done" /\ topo.sizes # NoSizes /\ topo.props.num_xcc >= 1

\* The sizes calculate_sizes returns, and the header fields init_header
\* computes for the region at ptr, are the ones the sizing rules give
CwsrArithmetic ==
    CwsrDone =>
        LET z == topo.sizes
            n == topo.props.num_xcc
            per_xcc == z.ctx_save_restore_size
            h == init_header(Va(0), z, n)
        IN  /\ per_xcc = z.ctl_stack_size + cwsr_align_up(z.wg_data_size, 4096)
            /\ z.total_mem_alloc_size = (per_xcc + z.debug_memory_size) * n
            /\ DOMAIN h = 0..(n - 1)
            /\ \A i \in DOMAIN h :
                /\ h[i].addr = Va(i * per_xcc)
                /\ h[i].debug_offset = (n - i) * per_xcc
                /\ h[i].debug_size = z.debug_memory_size * n
                /\ VaInt(h[i].addr) + h[i].debug_offset = n * per_xcc
                /\ VaInt(h[i].addr) + h[i].debug_offset + h[i].debug_size
                      = z.total_mem_alloc_size
                /\ VaInt(h[i].addr) + HeaderBytes <= z.total_mem_alloc_size

\* The region and its headers as cwsr.rs lays them out, with a header of
\* bytes bytes
CwsrHeadersInsideAllocation(bytes) ==
    /\ CwsrArithmetic
    /\ (CwsrDone /\ topo.alloc # NoAlloc) =>
        LET z == topo.sizes
            n == topo.props.num_xcc
            a == topo.alloc
        IN  /\ topo.res = "ok"
            /\ a.size = Va(z.total_mem_alloc_size)
            /\ DOMAIN topo.headers = 0..(n - 1)
            /\ \A i \in DOMAIN topo.headers :
                /\ topo.headers[i].addr = VaAdd(a.gpu_va, Va(i * z.ctx_save_restore_size))
                /\ topo.headers[i].debug_offset = (n - i) * z.ctx_save_restore_size
                /\ topo.headers[i].debug_size = z.debug_memory_size * n
                /\ topo.headers[i].bytes_written = bytes
                /\ VaLe(VaAdd(topo.headers[i].addr, Va(bytes)),
                        VaAdd(a.gpu_va, a.size))

\* C34: for an eligible GPU with num_xcc >= 1 the region is
\* (per_xcc + debug) * num_xcc bytes, and once the region is allocated a
\* header is written for every XCC i at byte offset i * per_xcc of the
\* allocation, with debug-offset (num_xcc - i) * per_xcc and debug-size
\* debug * num_xcc, every header 32 bytes and inside the allocation
C34_CwsrPackedHeadersInsideAllocation == CwsrHeadersInsideAllocation(32)

\* What the code keeps: the same layout with headers of
\* size_of::<HsaUserContextSaveAreaHeader>() bytes, each inside the
\* allocation
C34_CwsrHeadersInsideAllocation == CwsrHeadersInsideAllocation(HeaderBytes)

-----------------------------------------------------------------------------
(* The VA ranges of the allocations live in the kernel: topo.live is the
   kernel's record of every live handle, with the va_addr and size of its
   alloc ioctl and the aperture the range was reserved in *)

RangeSizes == {VaPages(1), VaPages(2)}
RangeFlags == {FlagVram(AllocFlagsNew), FlagGtt(AllocFlagsNew)}

\* mgr.lock().unwrap().allocate(..): the range reserved and the handle
\* granted, or the failure unwound
RangeAllocate(size, flags, fail) ==
    /\ ~stuck /\ ~poisoned
    /\ calls < MaxCalls
    /\ \E r \in {allocate(Cur, size, Va(0), flags, NoNode, fail, overflow_checks)} :
        /\ calls' = calls + 1
        /\ Commit(r.s)
        /\ owned' = IF r.res = "ok" THEN owned \cup {r.alloc} ELSE owned
        /\ poisoned' = (r.res = "panic")
        /\ last' = [op |-> "allocate", res |-> r.res, trace |-> r.s.tr,
                    arg |-> [at |-> r.at, code |-> r.code], pz |-> FALSE]
        /\ topo' = [topo EXCEPT !.live =
                      {x \in @ \cup (IF r.res = "ok"
                                     THEN {[handle |-> r.alloc.handle,
                                            va_addr |-> r.alloc.gpu_va,
                                            size |-> r.alloc.size,
                                            aperture |-> SelectAperture(flags,
                                                            r.alloc.node_id)]}
                                     ELSE {}) : x.handle \in r.s.kfd.live}]
        /\ UNCHANGED <<wait_vars, sig_vars, ctx, kev, overflow_checks, ap_vars, queues, dropping,
                       ghost>>

\* drop(allocation): the munmap; nothing the kernel records changes
RangeDrop(a, fault) ==
    /\ a \in owned
    /\ owned' = owned \ {a}
    /\ DropAdvance([queue |-> NoQueue, alloc |-> a, fault |-> fault,
                    todo |-> AllocationDropSteps(<<a>>), trace |-> <<>>], dropping)
    /\ UNCHANGED <<queues, topo>>

\* The locked part of the drop; the kernel forgets the handle when the free
\* ioctl succeeds
RangeDropStep(d) ==
    /\ d \in dropping
    /\ DropAdvance(d, dropping \ {d})
    /\ topo' = [topo EXCEPT !.live = {x \in @ : x.handle \in kfd'.live}]
    /\ UNCHANGED <<owned, queues>>

\* mgr.lock().unwrap().free_memory(&device, handle), the manager's public
\* free: the kernel forgets the handle when the free ioctl succeeds
RangeFree(handle, fault) ==
    /\ ~stuck /\ ~poisoned
    /\ \E r \in {free_memory(Cur, handle, fault)} :
        /\ Commit(r)
        /\ last' = [op |-> "free_memory", res |-> "ok", trace |-> r.tr,
                    arg |-> [handle |-> handle, fault |-> fault], pz |-> FALSE]
        /\ topo' = [topo EXCEPT !.live = {x \in @ : x.handle \in r.kfd.live}]
        /\ UNCHANGED <<wait_vars, sig_vars, ctx, kev, overflow_checks, ap_vars, owned,
                       queues, dropping, poisoned, ghost, calls>>

RangesNext ==
    \/ \E size \in RangeSizes, flags \in RangeFlags, fail \in AllocateFails :
            RangeAllocate(size, flags, fail)
    \/ \E handle \in FreeHandles, fault \in FreeFaults : RangeFree(handle, fault)
    \/ \E a \in owned, fault \in DropFaults : RangeDrop(a, fault)
    \/ \E d \in dropping : RangeDropStep(d)

RangesInit ==
    /\ BuildInit /\ ApStart /\ ap_cur = "svm" /\ MemStart /\ SigStart
    /\ WaitStart /\ GroupStart
    /\ topo = [pc |-> "ranges", live |-> {}]
    /\ ctx = [pc |-> "none"]
    /\ kev = [pc |-> "none"]

SpecRanges == RangesInit /\ [][RangesNext]_vars

RangesOverlap(x, y) ==
    /\ VaLt(x.va_addr, VaAdd(y.va_addr, y.size))
    /\ VaLt(y.va_addr, VaAdd(x.va_addr, x.size))

\* C38: the VA ranges of the allocations live in the kernel (allocated and
\* not yet successfully freed) that lie in one aperture are pairwise
\* disjoint, also after drops whose unmap or free ioctl failed
C38_LiveRangesDisjoint ==
    \A x, y \in topo.live :
        (x # y /\ x.aperture = y.aperture) => ~RangesOverlap(x, y)

-----------------------------------------------------------------------------
(* The topology snapshot and its io-link counts: get_snapshot over a sysfs
   tree of one CPU node (0) and one or two GPU nodes (1, 2), and the io-link
   lists context::acquire collects from it *)

SnapNodes == 0..2

\* Node::from_sysfs: the properties file, the io_links entries and after
\* them the p2p_links entries
from_sysfs(dir) ==
    [simd_count |-> dir.simd_count, io_links_count |-> dir.io_links_count,
     p2p_links_count |-> dir.p2p_links_count,
     io_links |-> dir.io_links \o dir.p2p_links]

\* get_snapshot: the position of the call calculate_indirect_link(s, d) in
\* `for i in 0..n { for j in (i + 1)..n { (i, j); (j, i) } }`
CallOrder(s, d) ==
    IF s < d THEN 2 * (s * Cardinality(SnapNodes) + d)
    ELSE 2 * (d * Cardinality(SnapNodes) + s) + 1

\* The links synthesized for source s to the destinations ds, in call order
RECURSIVE new_links(_, _, _)
new_links(nodes, s, ds) ==
    IF ds = {} THEN <<>>
    ELSE LET d == CHOOSE x \in ds : \A y \in ds : CallOrder(s, x) <= CallOrder(s, y)
             l == calculate_indirect_link(nodes, s, d)
         IN  (IF l.some THEN <<[node_to |-> l.node_to, weight |-> l.weight,
                                type_ |-> l.type_]>>
              ELSE <<>>) \o new_links(nodes, s, ds \ {d})

\* SysfsTopology::get_snapshot: every node read, then the indirect links
\* appended to their source nodes and counted
get_snapshot(sysfs) ==
    LET nodes == [i \in DOMAIN sysfs |-> from_sysfs(sysfs[i])]
    IN  [i \in DOMAIN sysfs |->
            LET added == new_links(nodes, i, DOMAIN sysfs \ {i})
            IN  [nodes[i] EXCEPT !.io_links = @ \o added,
                                 !.io_links_count = @ + Len(added)]]

\* topology::get_node_io_link_properties
get_node_io_link_properties(nodes, node_id, num_links) ==
    SubSeq(nodes[node_id].io_links, 1,
           IF Len(nodes[node_id].io_links) <= num_links
           THEN Len(nodes[node_id].io_links) ELSE num_links)

SnapshotUnchanged ==
    UNCHANGED <<overflow_checks, apertures, ap_vars, mem_vars, sig_vars, wait_vars, ctx, kev>>

\* The link entries a sysfs directory may hold towards node n
SysfsLinks(n, types) ==
    {<<>>} \cup {<<[node_to |-> n, weight |-> 15, type_ |-> t]>> : t \in types}

\* A sysfs tree as the driver publishes it: each node's io_links_count and
\* p2p_links_count are the numbers of entries in its io_links and p2p_links
\* directories.  GPUs link up to the CPU, the CPU down to the GPUs, and the
\* GPUs have peer-to-peer links to each other.
SysfsTree(up1, up2, down1, down2, p12, p21) ==
    [i \in SnapNodes |->
        CASE i = 0 -> [simd_count |-> 0, io_links |-> down1 \o down2,
                       io_links_count |-> Len(down1 \o down2),
                       p2p_links |-> <<>>, p2p_links_count |-> 0]
          [] i = 1 -> [simd_count |-> 4, io_links |-> up1,
                       io_links_count |-> Len(up1),
                       p2p_links |-> p12, p2p_links_count |-> Len(p12)]
          [] i = 2 -> [simd_count |-> 4, io_links |-> up2,
                       io_links_count |-> Len(up2),
                       p2p_links |-> p21, p2p_links_count |-> Len(p21)]]

\* The trees a scan may find: the CPU and both GPUs
FullTrees ==
    {SysfsTree(up1, up2, down1, down2, p12, p21) :
        up1 \in SysfsLinks(0, {HSA_IOLINKTYPE_PCIEXPRESS}),
        up2 \in SysfsLinks(0, {HSA_IOLINKTYPE_PCIEXPRESS}),
        down1 \in SysfsLinks(1, {HSA_IOLINKTYPE_PCIEXPRESS}),
        down2 \in SysfsLinks(2, {HSA_IOLINKTYPE_PCIEXPRESS}),
        p12 \in SysfsLinks(2, {HSA_IOLINKTYPE_PCIEXPRESS, HSA_IOLINKTYPE_XGMI}),
        p21 \in SysfsLinks(1, {HSA_IOLINKTYPE_PCIEXPRESS, HSA_IOLINKTYPE_XGMI})}

\* or the CPU and GPU 1 only, GPU 2 and every link to it gone
SysfsTrees ==
    FullTrees
    \cup {[i \in {0, 1} |-> SysfsTree(up1, <<>>, down1, <<>>, <<>>, <<>>)[i]] :
            up1 \in SysfsLinks(0, {HSA_IOLINKTYPE_PCIEXPRESS}),
            down1 \in SysfsLinks(1, {HSA_IOLINKTYPE_PCIEXPRESS})}

\* Topology::new: the snapshot is taken and cached in GLOBAL_TOPOLOGY;
\* context::acquire reads system_props.num_nodes, the number of its nodes
Snapshot ==
    /\ topo.pc = "sysfs"
    /\ topo' = [topo EXCEPT !.pc = "node_properties", !.cached = TRUE, !.builds = 1,
                            !.nodes = get_snapshot(topo.sysfs),
                            !.num_nodes = Cardinality(DOMAIN topo.sysfs)]
    /\ SnapshotUnchanged

\* context::acquire, for node_id in 0..num_nodes: get_node_properties(node_id)
\* under a lock of GLOBAL_TOPOLOGY of its own, failing with NotConnected when
\* no topology is cached and with InvalidInput when the cached topology has
\* no such node; num_links is the node's io_links_count as it reports it
SnapNodeProperties ==
    /\ topo.pc = "node_properties"
    /\ topo' = IF ~topo.cached THEN [topo EXCEPT !.pc = "not_connected"]
               ELSE IF topo.node \notin DOMAIN topo.nodes
                    THEN [topo EXCEPT !.pc = "invalid_input"]
               ELSE [topo EXCEPT !.pc = "io_link_properties",
                                 !.num_links = topo.nodes[topo.node].io_links_count]
    /\ SnapshotUnchanged

\* context::acquire, for the same node id:
\* get_node_io_link_properties(node_id, num_links) under a lock of its own, on
\* the topology cached by then; the list is pushed and the loop goes on to
\* the next node
SnapIoLinkProperties ==
    /\ topo.pc = "io_link_properties"
    /\ topo' = IF ~topo.cached THEN [topo EXCEPT !.pc = "not_connected"]
               ELSE IF topo.node \notin DOMAIN topo.nodes
                    THEN [topo EXCEPT !.pc = "invalid_input"]
               ELSE [topo EXCEPT
                       !.pc = IF topo.node + 1 < topo.num_nodes THEN "node_properties"
                              ELSE "context",
                       !.node = @ + 1,
                       !.asked = (topo.node :> topo.num_links) @@ @,
                       !.io_link_properties =
                           (topo.node :> get_node_io_link_properties(topo.nodes, topo.node,
                                                                     topo.num_links)) @@ @]
    /\ SnapshotUnchanged

\* release_system_properties by another thread while the lists are being
\* collected: GLOBAL_TOPOLOGY = None
SnapRelease ==
    /\ topo.pc \in {"node_properties", "io_link_properties"} /\ topo.cached
    /\ topo' = [topo EXCEPT !.cached = FALSE]
    /\ SnapshotUnchanged

\* acquire_system_properties by another thread: Topology::new takes a
\* snapshot of sysfs as it is by then, the tree scanned, and caches it
SnapReacquire(scanned) ==
    /\ topo.pc \in {"node_properties", "io_link_properties"} /\ ~topo.cached
    /\ topo.builds < MaxBuilds
    /\ topo' = [topo EXCEPT !.cached = TRUE, !.builds = @ + 1, !.sysfs = scanned,
                            !.nodes = get_snapshot(scanned)]
    /\ SnapshotUnchanged

SnapshotNext ==
    \/ Snapshot
    \/ SnapNodeProperties
    \/ SnapIoLinkProperties
    \/ SnapRelease
    \/ \E scanned \in SysfsTrees : SnapReacquire(scanned)

SnapshotInit ==
    /\ BuildInit /\ overflow_checks /\ ApStart /\ ap_cur = "svm" /\ MemStart /\ SigStart
    /\ WaitStart /\ GroupStart
    /\ \E scanned \in SysfsTrees :
            topo = [pc |-> "sysfs", cached |-> FALSE, builds |-> 0, node |-> 0,
                    num_nodes |-> 0, num_links |-> 0, sysfs |-> scanned, nodes |-> <<>>,
                    asked |-> <<>>, io_link_properties |-> <<>>]
    /\ ctx = [pc |-> "none"]
    /\ kev = [pc |-> "none"]

SpecSnapshot == SnapshotInit /\ [][SnapshotNext]_vars

\* C40: after the snapshot is built every node's io_links_count is the
\* number of entries of its io_links list (direct links, p2p links and
\* appended indirect links), so that the io-link list the Context collects
\* from that snapshot for the node with that count is the whole list, every
\* synthesized link included
C40_IoLinksCountIsListLength ==
    /\ topo.pc # "sysfs" =>
          \A i \in DOMAIN topo.nodes :
              topo.nodes[i].io_links_count = Len(topo.nodes[i].io_links)
    /\ (topo.pc = "context" /\ topo.builds = 1) =>
          \A i \in DOMAIN topo.nodes : topo.io_link_properties[i] = topo.nodes[i].io_links

\* What the code keeps: io_links_count is the sysfs count plus the number of
\* links synthesized, and the list has the node's p2p links on top of that;
\* the list collected for a node has at most the num_links entries asked for,
\* and exactly io_links_count entries when the topology was not scanned anew
\* in between
C40_CountLeavesOutP2pLinks ==
    topo.pc # "sysfs" =>
        /\ \A i \in DOMAIN topo.nodes :
                Len(topo.nodes[i].io_links)
                    = topo.nodes[i].io_links_count + topo.sysfs[i].p2p_links_count
        /\ \A i \in DOMAIN topo.io_link_properties :
                /\ Len(topo.io_link_properties[i]) <= topo.asked[i]
                /\ topo.builds = 1 =>
                      Len(topo.io_link_properties[i]) = topo.nodes[i].io_links_count
        /\ topo.pc = "context" =>
              DOMAIN topo.io_link_properties = 0..(topo.num_nodes - 1)

====
